---- MODULE Spec2Model ----
(***************************************************************************)
(* Image-Gallery server (server.js, final version, lines 994-2324): the    *)
(* metadata store, the startup reconciliation, the backup manager and the  *)
(* group views, as a state machine over the files the server keeps.        *)
(*                                                                         *)
(* Names of files and items are strings, built and taken apart with the    *)
(* string operations the code uses (extname, startsWith, regex tests).     *)
(* syncMetadataWithFiles declares `const files` twice in one block (lines  *)
(* 1264 and 1313); the model reads the second declaration as a rebinding.  *)
(***************************************************************************)
EXTENDS Integers, Sequences, FiniteSets, TLC

VARIABLES
    uploads,      \* names of the files in uploadsDir
    primary,      \* content of image-metadata.json
    primaryTmp,   \* content of image-metadata.json.tmp
    mirror,       \* content of backups/image-metadata.json
    mirrorTmp,    \* content of backups/image-metadata.json.tmp
    backups,      \* the snapshot directories backups/backup-<time>
    clock,        \* Date.now(), advanced by every id taken
    envCount,     \* events outside the server so far
    cycles,       \* per request in flight: the handler's position and the map it loaded
    resp          \* the last operation and what it answered or logged

vars == <<uploads, primary, primaryTmp, mirror, mirrorTmp, backups, clock, envCount, cycles, resp>>

(***************************************************************************)
(* Bounds of the model.                                                    *)
(***************************************************************************)
\* ids (uploads and links) the server hands out in one behaviour
MaxIds == 2
\* snapshots taken in one behaviour
MaxBackups == 2
\* events outside the server (files lost or added, a metadata file damaged)
MaxEnv == 2
\* crashes of the process in one behaviour
MaxCrashes == 1
\* ids in the fileOrder array of one reorder request
MaxOrderLen == 3
\* requests in flight at once
MaxCycles == 2

(***************************************************************************)
(* JavaScript values.                                                      *)
(***************************************************************************)
Undef == "undefined"
Null == "null"
\* `undefined` and `null` in a numeric slot (order)
NoOrder == -1
NullOrder == -2
\* `undefined` in the slot of a time (uploadDate)
NoDate == -1

(***************************************************************************)
(* Strings.                                                                *)
(***************************************************************************)
CharAt(s, i) == SubSeq(s, i, i)

StartsWith(s, p) == Len(s) >= Len(p) /\ SubSeq(s, 1, Len(p)) = p

\* RegExp.test of a literal: s contains p
Contains(s, p) == \E i \in 1..(Len(s) - Len(p) + 1) : SubSeq(s, i, i + Len(p) - 1) = p

\* s.indexOf(p) counted from 1, 0 if s does not contain p
Find(s, p) ==
    LET at == {i \in 1..(Len(s) - Len(p) + 1) : SubSeq(s, i, i + Len(p) - 1) = p}
    IN  IF at = {} THEN 0 ELSE CHOOSE i \in at : \A j \in at : i <= j

\* s.split(p)[0]
SplitHead(s, p) == IF Find(s, p) = 0 THEN s ELSE SubSeq(s, 1, Find(s, p) - 1)

\* s.split(p)[1] of a string s that contains p: what lies between the first p
\* and the next one
SplitSecond(s, p) == SplitHead(SubSeq(s, Find(s, p) + Len(p), Len(s)), p)

Digits == "0123456789"

IsDigit(c) == \E i \in 1..10 : CharAt(Digits, i) = c

DigitVal(c) == (CHOOSE i \in 1..10 : CharAt(Digits, i) = c) - 1

\* path.basename: what follows the last "/"
PathBase(s) ==
    LET slashes == {i \in 1..Len(s) : CharAt(s, i) = "/"}
    IN  IF slashes = {} THEN s
        ELSE SubSeq(s, (CHOOSE i \in slashes : \A j \in slashes : j <= i) + 1, Len(s))

\* index in the base name s of the "." that starts the extension (never its
\* first character: ".persistence-marker" has no extension), 0 if there is none
LastDot(s) ==
    LET dots == {i \in 2..Len(s) : CharAt(s, i) = "."}
    IN  IF dots = {} THEN 0 ELSE CHOOSE i \in dots : \A j \in dots : j <= i

\* path.extname
ExtName(s) ==
    LET base == PathBase(s)
    IN  IF LastDot(base) = 0 THEN "" ELSE SubSeq(base, LastDot(base), Len(base))

\* path.parse(s).name
BaseName(s) ==
    LET base == PathBase(s)
    IN  IF LastDot(base) = 0 THEN base ELSE SubSeq(base, 1, LastDot(base) - 1)

\* the names the model uses are lower case already
ToLowerCase(s) == s

\* collation rank of a character under localeCompare: punctuation, digits, letters
Alphabet == "_-.0123456789abcdefghijklmnopqrstuvwxyz"

Rank(c) == CHOOSE i \in 1..Len(Alphabet) : CharAt(Alphabet, i) = c

RECURSIVE LocaleLess(_, _)
\* a.localeCompare(b) < 0
LocaleLess(a, b) ==
    IF Len(b) = 0 THEN FALSE
    ELSE IF Len(a) = 0 THEN TRUE
    ELSE IF CharAt(a, 1) # CharAt(b, 1) THEN Rank(CharAt(a, 1)) < Rank(CharAt(b, 1))
    ELSE LocaleLess(SubSeq(a, 2, Len(a)), SubSeq(b, 2, Len(b)))

(***************************************************************************)
(* Recognized media files.                                                 *)
(***************************************************************************)
ImageExts == {".jpg", ".jpeg", ".png", ".gif", ".webp"}
VideoExts == {".mp4", ".webm", ".ogg", ".mov", ".avi"}

\* the extension filter of the listings and of the reconciliation
IsMedia(f) == ToLowerCase(ExtName(f)) \in (ImageExts \cup VideoExts)

\* file.match(/\.(mp4|webm|ogg|mov|avi)$/i) ? 'video' : 'image'
TypeFromName(f) == IF ExtName(f) \in VideoExts THEN "video" ELSE "image"

(***************************************************************************)
(* Requests.                                                               *)
(***************************************************************************)
GroupNames == {"group-1"}

\* a group id of another form than the client's group-<time>
PlainGroup == "trip"

\* limits: { fileSize: 100 * 1024 * 1024 }
FileSizeLimit == 104857600

Jpg(name) == [originalname |-> name, mimetype |-> "image/jpeg", size |-> 1]

\* req.file of a request without a file part
NoFile == [originalname |-> Undef, mimetype |-> Undef, size |-> 0]

UploadFiles ==
    {Jpg("photo.jpg"), Jpg("photo_1.jpg"), Jpg("photo_2.jpg"),
     [originalname |-> "photo_1.png", mimetype |-> "image/png", size |-> 1],
     [originalname |-> "photo.jpgx", mimetype |-> "image/jpeg", size |-> 1],
     [originalname |-> "photo.jpg", mimetype |-> "text/plain", size |-> 1],
     [originalname |-> "film.mp4", mimetype |-> "video/mp4", size |-> FileSizeLimit + 1],
     [originalname |-> "clip.mp4", mimetype |-> "video/mp4", size |-> 1],
     [originalname |-> "notes.txt", mimetype |-> "text/plain", size |-> 1]}

Urls ==
    {"https://youtu.be/abc", "https://example.com/v/1",
     "https://youtu.be/abc123",
     "https://www.youtube.com/watch?v=xyz&t=5",
     "https://www.youtube.com/shorts/xyz",
     "https://drive.google.com/file/d/f1/view",
     "https://drive.google.com/open?id=f1",
     "https://example.com/video"}

Marker == ".persistence-marker"

(***************************************************************************)
(* The names of one behaviour, and what the string operations above give   *)
(* for each of them (computed once).                                       *)
(***************************************************************************)
\* item ids (<time><ext> for a stored file, link-<time> for a link), the
\* marker file, and the group names, which DELETE takes in the place of an id
Names ==
    {ToString(n) \o e : n \in 0..MaxIds, e \in {".jpg", ".mp4", ".png", ".jpgx"}}
    \cup {"link-" \o ToString(n) : n \in 1..MaxIds}
    \cup {Marker, PlainGroup} \cup GroupNames

\* the time a file was written: multer names a stored file <time><ext>
FileTime(f) ==
    LET times == {n \in 0..MaxIds : StartsWith(f, ToString(n) \o ".")}
    IN  IF times = {} THEN 0 ELSE CHOOSE n \in times : TRUE

NameTable ==
    [f \in Names |->
        [media |-> IsMedia(f), type |-> TypeFromName(f), ext |-> ExtName(f),
         link |-> StartsWith(f, "link-"), group |-> StartsWith(f, "group-"),
         mtime |-> FileTime(f),
         before |-> {b \in Names : LocaleLess(f, b)}]]

\* a.localeCompare(b) < 0, for names
NameBefore(a, b) == b \in NameTable[a].before

MediaFiles(files) == {f \in files : NameTable[f].media}

(***************************************************************************)
(* Metadata records and their JSON form.                                   *)
(* A record in memory gives, for every attribute of Fields, what reading   *)
(* it yields (`undefined` for one the object lacks), and in `keys` the     *)
(* attributes the object has.  A JSON object holds only the attributes     *)
(* that are defined.                                                       *)
(***************************************************************************)
Fields ==
    {"category", "description", "type", "groupId", "order", "isExternal", "titleImageId",
     "externalUrl", "embedUrl", "videoType", "uploadDate"}

\* the value v of attribute f is `undefined`
IsUndefined(f, v) ==
    CASE f = "order" -> v = NoOrder
      [] f = "uploadDate" -> v = NoDate
      [] f = "isExternal" -> FALSE
      [] OTHER -> v = Undef

EmptyMap == [k \in {} |-> 0]

\* Stringify of a serializer that leaves out null attributes too
StringifyNoNull(m) ==
    [k \in DOMAIN m |->
        [f \in {g \in m[k].keys : /\ ~IsUndefined(g, m[k][g])
                                   /\ ~(g = "groupId" /\ m[k][g] = Null)} |-> m[k][f]]]

\* JSON.stringify(metadata, null, 2): attributes that are undefined are left out
Stringify(m) ==
    [k \in DOMAIN m |->
        [f \in {g \in m[k].keys : ~IsUndefined(g, m[k][g])} |-> m[k][f]]]

\* JSON.parse: an attribute the object lacks reads undefined
ParseJSON(text) ==
    [k \in DOMAIN text |->
        [f \in Fields \cup {"keys"} |->
            IF f = "keys" THEN DOMAIN text[k]
            ELSE IF f \in DOMAIN text[k] THEN text[k][f]
            ELSE CASE f = "order" -> NoOrder
                   [] f = "uploadDate" -> NoDate
                   [] f = "isExternal" -> FALSE
                   [] OTHER -> Undef]]

(***************************************************************************)
(* Files on disk.  A metadata file is absent, holds a complete JSON text,  *)
(* or holds something JSON.parse rejects (damaged, or a write cut short).  *)
(***************************************************************************)
Absent == [kind |-> "absent", text |-> EmptyMap]
Corrupt == [kind |-> "corrupt", text |-> EmptyMap]
Partial == [kind |-> "partial", text |-> EmptyMap]
JsonFile(text) == [kind |-> "json", text |-> text]

Exists(file) == file.kind # "absent"
Parses(file) == file.kind = "json"

Disk == [uploads |-> uploads, primary |-> primary, primaryTmp |-> primaryTmp,
         mirror |-> mirror, mirrorTmp |-> mirrorTmp, backups |-> backups]

SetDisk(d) ==
    /\ uploads' = d.uploads
    /\ primary' = d.primary
    /\ primaryTmp' = d.primaryTmp
    /\ mirror' = d.mirror
    /\ mirrorTmp' = d.mirrorTmp
    /\ backups' = d.backups

(***************************************************************************)
(* Metadata store.                                                         *)
(***************************************************************************)
\* fs.readFileSync + JSON.parse of a file that exists: the map, or an exception
ReadJSON(file) ==
    IF Parses(file) THEN [threw |-> FALSE, val |-> ParseJSON(file.text)]
    ELSE [threw |-> TRUE, val |-> EmptyMap]

\* Caught without the catch clause: the exception goes on to the caller
Uncaught(r) == r

\* a catch clause that logs and goes on: the exception does not leave the block
Caught(r) == [r EXCEPT !.threw = FALSE]

\* first try block: return the primary file's map if the file exists and parses
\* [returned: the function returned here, threw, ret, disk, src]
loadPrimary(d) ==
    LET r == IF Exists(d.primary) THEN ReadJSON(d.primary)
             ELSE [threw |-> FALSE, val |-> EmptyMap]
    IN  Caught([returned |-> Exists(d.primary) /\ ~r.threw, threw |-> r.threw,
                ret |-> r.val, disk |-> d, src |-> "primary"])

\* the file system calls of a write of the metadata that may fail
SaveFaults == {"writeTmp", "rename", "writeMirrorTmp", "renameMirror"}
PrimaryFaults == {"writeTmp", "rename"}
NoFault == {"none"}
AnyFault == NoFault \cup SaveFaults
LoadFaults == NoFault \cup PrimaryFaults
\* the places inside saveMetadata where the process may die: in the write of
\* the temp file, before the rename, after it, and in the two writes of the
\* mirror (which leave what their failure leaves, the catch only logs)
CrashPoints == {"crashWriteTmp", "crashRename", "crashMirror", "writeMirrorTmp", "renameMirror"}

\* the innermost try of the fallback: the text of the copy written to the
\* primary location (temp file, then rename); a failure is logged
restorePrimary(d, fault) ==
    IF fault = "writeTmp" THEN [d EXCEPT !.primaryTmp = Partial]
    ELSE IF fault = "rename" THEN [d EXCEPT !.primaryTmp = d.mirror]
    ELSE [d EXCEPT !.primary = d.mirror, !.primaryTmp = Absent]

\* second try block: the copy in the backups directory, written back to the
\* primary location
loadBackup(d, fault) ==
    LET r == IF Exists(d.mirror) THEN ReadJSON(d.mirror)
             ELSE [threw |-> FALSE, val |-> EmptyMap]
        ok == Exists(d.mirror) /\ ~r.threw
    IN  Caught([returned |-> ok, threw |-> r.threw, ret |-> r.val,
                disk |-> IF ok THEN restorePrimary(d, fault) ELSE d,
                src |-> "backup"])

\* loadMetadataWithFallback, with the call `fault` of its write to the primary
\* location failing.  [ret: the map returned, disk: the disk after the call,
\* src: where the map came from, threw: an exception left the function]
loadMetadataWithFallback(d, fault) ==
    LET p == loadPrimary(d)
        b == loadBackup(d, fault)
    IN  IF p.returned \/ p.threw THEN [ret |-> p.ret, disk |-> p.disk, src |-> p.src, threw |-> p.threw]
        ELSE IF b.returned \/ b.threw THEN [ret |-> b.ret, disk |-> b.disk, src |-> b.src, threw |-> b.threw]
        ELSE [ret |-> EmptyMap, disk |-> d, src |-> "empty", threw |-> FALSE]

\* loadMetadata() as the handlers call it, the disk taking the write
loadMetadata(d) == loadMetadataWithFallback(d, "none")

\* the inner try of saveMetadata: the redundant copy in the backups directory
saveMirror(d, m, fault) ==
    IF fault = "writeMirrorTmp" THEN [d EXCEPT !.mirrorTmp = Partial]
    ELSE IF fault = "renameMirror" THEN [d EXCEPT !.mirrorTmp = JsonFile(Stringify(m))]
    ELSE [d EXCEPT !.mirror = JsonFile(Stringify(m)), !.mirrorTmp = Absent]

\* saveCleanup of a catch that only logs
saveNoCleanup(d) == d

\* the catch of saveMetadata: remove the temp file if it exists
saveCleanup(d) == [d EXCEPT !.primaryTmp = Absent]

\* saveMetadata(metadata) with the call `fault` failing ("none": all succeed).
\* Returns the disk after the call; the caller learns nothing of a failure.
saveMetadata(d, m, fault) ==
    IF fault = "writeTmp" THEN saveCleanup([d EXCEPT !.primaryTmp = Partial])
    ELSE IF fault = "rename" THEN saveCleanup([d EXCEPT !.primaryTmp = JsonFile(Stringify(m))])
    ELSE IF fault = "crashWriteTmp" THEN [d EXCEPT !.primaryTmp = Partial]
    ELSE IF fault = "crashRename" THEN [d EXCEPT !.primaryTmp = JsonFile(Stringify(m))]
    ELSE IF fault = "crashMirror"
    THEN [d EXCEPT !.primary = JsonFile(Stringify(m)), !.primaryTmp = Absent]
    ELSE saveMirror([d EXCEPT !.primary = JsonFile(Stringify(m)), !.primaryTmp = Absent], m, fault)

(***************************************************************************)
(* Backup manager.  A snapshot is [name, meta, files]; names are the       *)
(* timestamps backup-<ISO time>, modelled by the count of snapshots taken. *)
(***************************************************************************)
SnapshotNames(d) == {b.name : b \in d.backups}

\* createBackup when new Date() reads `name`: the directory is made unless it
\* exists; the primary metadata file (if any) is copied into it and every file
\* of uploads into its uploads, over what is there
createBackupAt(d, name) ==
    IF name \in SnapshotNames(d)
    THEN LET b == CHOOSE x \in d.backups : x.name = name
         IN  [d EXCEPT !.backups = (@ \ {b}) \cup
                 {[name |-> name,
                   meta |-> IF Exists(d.primary) THEN d.primary ELSE b.meta,
                   files |-> b.files \cup d.uploads]}]
    ELSE [d EXCEPT !.backups = @ \cup {[name |-> name, meta |-> d.primary, files |-> d.uploads]}]

\* createBackup at a time later than that of every snapshot
createBackup(d) == createBackupAt(d, Cardinality(d.backups) + 1)

\* restoreFromBackup(backupName): [ok: the value returned, disk]
restoreFromBackup(d, name) ==
    IF name \notin SnapshotNames(d)
    THEN [ok |-> FALSE, disk |-> d]     \* 'Backup not found' thrown and caught
    ELSE LET b == CHOOSE x \in d.backups : x.name = name
         IN  [ok |-> TRUE,
              disk |-> [d EXCEPT !.primary = IF Exists(b.meta) THEN b.meta ELSE @,
                                 !.uploads = @ \cup b.files]]

\* the disks the process leaves when it dies inside createBackup: the copy of
\* the metadata file cut short, or that copy done and no file or every file
\* copied
createBackupCrashes(d) ==
    LET name == Cardinality(d.backups) + 1
    IN  (IF Exists(d.primary)
         THEN {[d EXCEPT !.backups = @ \cup {[name |-> name, meta |-> Partial, files |-> {}]}]}
         ELSE {})
        \cup {[d EXCEPT !.backups = @ \cup {[name |-> name, meta |-> d.primary, files |-> F]}] :
                 F \in {{}, d.uploads}}

\* the disks the process leaves when it dies inside restoreFromBackup: the
\* fs.copyFileSync onto the metadata file cut short, or that copy done and
\* no file or every file copied
restoreCrashes(d, name) ==
    IF name \notin SnapshotNames(d) THEN {d}
    ELSE LET b == CHOOSE x \in d.backups : x.name = name
         IN  (IF Exists(b.meta) THEN {[d EXCEPT !.primary = Partial]} ELSE {})
             \cup {[d EXCEPT !.primary = IF Exists(b.meta) THEN b.meta ELSE @,
                             !.uploads = @ \cup F] : F \in {{}, b.files}}

\* LatestBackup without the reverse(): backups.sort()[0]
OldestBackup(d) == CHOOSE n \in SnapshotNames(d) : \A k \in SnapshotNames(d) : n <= k

\* backups.sort().reverse()[0]
LatestBackup(d) == CHOOSE n \in SnapshotNames(d) : \A k \in SnapshotNames(d) : k <= n

\* checkStoragePersistence: writes the marker file into uploads
checkStoragePersistence(d) == [d EXCEPT !.uploads = @ \cup {Marker}]

(***************************************************************************)
(* Startup reconciliation.                                                 *)
(***************************************************************************)
\* the sentinel order ("last")
Sentinel == 999

\* SynthRecord without the test of the extension: every file an image
SynthRecordImage(file) ==
    [category |-> "fun", description |-> "", type |-> "image",
     groupId |-> Null, order |-> Sentinel, isExternal |-> FALSE, titleImageId |-> Undef,
     externalUrl |-> Undef, embedUrl |-> Undef, videoType |-> Undef,
     uploadDate |-> NameTable[file].mtime,
     keys |-> {"category", "description", "uploadDate", "type", "groupId", "order"}]

\* the record reconciliation writes for a file that has none
SynthRecord(file) ==
    [category |-> "fun", description |-> "", type |-> NameTable[file].type,
     groupId |-> Null, order |-> Sentinel, isExternal |-> FALSE, titleImageId |-> Undef,
     externalUrl |-> Undef, embedUrl |-> Undef, videoType |-> Undef,
     uploadDate |-> NameTable[file].mtime,
     keys |-> {"category", "description", "uploadDate", "type", "groupId", "order"}]

\* keys whose record is not an external link and whose file is not in fileSet
Orphans(metadata, fileSet) ==
    {k \in DOMAIN metadata : ~metadata[k].isExternal /\ k \notin fileSet}

\* files of fileSet that have no record
Unrecorded(metadata, fileSet) == {f \in fileSet : f \notin DOMAIN metadata}

\* Reconcile with a first loop that stops after the first orphan it deletes
ReconcileOneOrphan(metadata, fileSet) ==
    LET orphans == Orphans(metadata, fileSet)
        gone == IF orphans = {} THEN {}
                ELSE {CHOOSE k \in orphans : \A j \in orphans \ {k} : NameBefore(k, j)}
        pruned == [k \in DOMAIN metadata \ gone |-> metadata[k]]
        added == Unrecorded(pruned, fileSet)
    IN  [k \in DOMAIN pruned \cup added |-> IF k \in added THEN SynthRecord(k) ELSE pruned[k]]

\* the two loops of the reconciliation: delete the orphans, then add defaults
Reconcile(metadata, fileSet) ==
    LET kept == DOMAIN metadata \ Orphans(metadata, fileSet)
        pruned == [k \in kept |-> metadata[k]]
        added == Unrecorded(pruned, fileSet)
    IN  [k \in kept \cup added |-> IF k \in added THEN SynthRecord(k) ELSE pruned[k]]

\* the restore of the newest snapshot when uploads holds no media file
\* [tried, name, ok, disk]
syncRestore(d) ==
    IF MediaFiles(d.uploads) = {} /\ d.backups # {}
    THEN LET r == restoreFromBackup(d, LatestBackup(d))
         IN  [tried |-> TRUE, name |-> LatestBackup(d), ok |-> r.ok, disk |-> r.disk]
    ELSE [tried |-> FALSE, name |-> 0, ok |-> FALSE, disk |-> d]

\* syncMetadataWithFiles, with the call `fault` of its saveMetadata failing.
\* [disk, restored: name of the snapshot restored or 0, loaded: the map it
\*  loaded, pruned, added: the keys it removed and added, updated]
syncMetadataWithFiles(d, fault) ==
    LET r == syncRestore(d)
        l == loadMetadata(checkStoragePersistence(r.disk))
        fileSet == MediaFiles(l.disk.uploads)
        pruned == Orphans(l.ret, fileSet)
        added == Unrecorded(l.ret, fileSet)
        updated == pruned # {} \/ added # {}
    IN  [disk |-> IF updated THEN saveMetadata(l.disk, Reconcile(l.ret, fileSet), fault)
                  ELSE l.disk,
         restored |-> IF r.ok THEN r.name ELSE 0,
         loaded |-> l.ret, pruned |-> pruned, added |-> added, updated |-> updated]

(***************************************************************************)
(* Sequences: directory listings, key lists and Array.prototype.sort.      *)
(***************************************************************************)
RECURSIVE InNameOrder(_)
\* the names of a set as fs.readdirSync and Object.keys list them (by name)
InNameOrder(S) ==
    IF S = {} THEN <<>>
    ELSE LET first == CHOOSE x \in S : \A y \in S \ {x} : NameBefore(x, y)
         IN  <<first>> \o InNameOrder(S \ {first})

Range(s) == {s[i] : i \in DOMAIN s}

RECURSIVE SortInsert(_, _, _)
\* x put before the first element of t that it comes before
SortInsert(x, t, before) ==
    IF t = <<>> THEN <<x>>
    ELSE IF <<x, Head(t)>> \in before THEN <<x>> \o t
    ELSE <<Head(t)>> \o SortInsert(x, Tail(t), before)

RECURSIVE SortBy(_, _)
\* array.sort(compare), the compare function given as the set `before` of the
\* pairs <<a, b>> with compare(a, b) < 0 (stable)
SortBy(s, before) ==
    IF s = <<>> THEN <<>>
    ELSE SortInsert(s[Len(s)], SortBy(SubSeq(s, 1, Len(s) - 1), before), before)

\* the pairs of elements of s
Pairs(s) == Range(s) \X Range(s)

\* JavaScript truthiness of a string-valued attribute
Truthy(v) == v \notin {Undef, Null, ""}

MinOf(S) == CHOOSE x \in S : \A y \in S : x <= y

(***************************************************************************)
(* Group views.                                                            *)
(***************************************************************************)
\* fileMeta.order !== undefined ? fileMeta.order : 999
ResolvedOrder(meta) == IF meta.order # NoOrder THEN meta.order ELSE Sentinel

\* compare function of group.files.sort in GET /api/images
imagesCompare(a, b) ==
    IF a.order # b.order THEN a.order < b.order ELSE NameBefore(a.id, b.id)

\* groupCompare without the orders: a.id.localeCompare(b.id) alone
groupCompareIds(metadata, a, b) == NameBefore(a.id, b.id)

\* compare function of groupFiles.sort in GET /api/groups/:groupId
groupCompare(metadata, a, b) ==
    LET orderA == ResolvedOrder(metadata[a.id])
        orderB == ResolvedOrder(metadata[b.id])
    IN  IF orderA # orderB THEN orderA < orderB ELSE NameBefore(a.id, b.id)

\* compare function of the sort of allItems in the zip download
downloadCompare(a, b) ==
    IF a.order # b.order THEN a.order < b.order ELSE NameBefore(a.id, b.id)

\* the external links of the map, in key order
LinkKeys(metadata) == InNameOrder({k \in DOMAIN metadata : metadata[k].isExternal})

\* the groups GET /api/images builds
imagesGroupIds(metadata, files) ==
    {metadata[k].groupId :
        k \in {x \in DOMAIN metadata :
                 /\ Truthy(metadata[x].groupId)
                 /\ (metadata[x].isExternal \/ x \in MediaFiles(files))}}

\* the entries { id, order } pushed to group.files for the items `ids`
imagesEntries(metadata, ids) ==
    [i \in 1..Len(ids) |-> [id |-> ids[i], order |-> ResolvedOrder(metadata[ids[i]])]]

\* group.files as pushed: the links of the group, then its media files
imagesPushed(metadata, files, g) ==
    LET links == SelectSeq(LinkKeys(metadata), LAMBDA k : metadata[k].groupId = g)
        phys == SelectSeq(InNameOrder(MediaFiles(files)),
                          LAMBDA f : f \in DOMAIN metadata /\ metadata[f].groupId = g)
    IN  imagesEntries(metadata, links \o phys)

\* the title file of a sorted member list (GET /api/images)
imagesTitle(metadata, sorted) ==
    LET titled == {i \in DOMAIN sorted : Truthy(metadata[sorted[i].id].titleImageId)}
        titleImageId == IF titled # {} THEN metadata[sorted[MinOf(titled)].id].titleImageId
                        ELSE sorted[1].id
        found == {i \in DOMAIN sorted : sorted[i].id = titleImageId}
    IN  IF found # {} THEN sorted[MinOf(found)].id ELSE sorted[1].id

\* group.files.sort(compare) in GET /api/images
imagesSorted(pushed) == SortBy(pushed, {p \in Pairs(pushed) : imagesCompare(p[1], p[2])})

\* the summary of a group whose sorted members are `sorted`
imagesSummary(metadata, sorted) == [files |-> sorted, title |-> imagesTitle(metadata, sorted)]

\* the summary of group g in GET /api/images
imagesGroup(metadata, files, g) ==
    imagesSummary(metadata, imagesSorted(imagesPushed(metadata, files, g)))

\* individualFiles: the links without group, then the media files without group
imagesIndividuals(metadata, files) ==
    SelectSeq(LinkKeys(metadata), LAMBDA k : ~Truthy(metadata[k].groupId)) \o
    SelectSeq(InNameOrder(MediaFiles(files)),
              LAMBDA f : ~(f \in DOMAIN metadata /\ Truthy(metadata[f].groupId)))

\* the body of GET /api/images
imagesResponse(metadata, files) ==
    [op |-> "images", status |-> 200,
     groups |-> [g \in imagesGroupIds(metadata, files) |-> imagesGroup(metadata, files, g)],
     individuals |-> imagesIndividuals(metadata, files)]

\* fileMeta?.uploadDate || new Date().toISOString()
DateOf(metadata, id, now) ==
    IF id \in DOMAIN metadata /\ metadata[id].uploadDate # NoDate
    THEN metadata[id].uploadDate
    ELSE now

RECURSIVE FirstSeen(_)
\* the elements of s in the order of their first occurrence (the keys of an
\* object, in the order they were added)
FirstSeen(s) ==
    IF s = <<>> THEN <<>>
    ELSE LET front == FirstSeen(SubSeq(s, 1, Len(s) - 1))
         IN  IF s[Len(s)] \in Range(front) THEN front ELSE Append(front, s[Len(s)])

\* Object.values(groups): the groups in the order their first member was pushed
imagesGroupSeq(metadata, files) ==
    LET grouped == SelectSeq(LinkKeys(metadata), LAMBDA k : Truthy(metadata[k].groupId))
                   \o SelectSeq(InNameOrder(MediaFiles(files)),
                                LAMBDA f : f \in DOMAIN metadata /\ Truthy(metadata[f].groupId))
    IN  FirstSeen([i \in 1..Len(grouped) |-> metadata[grouped[i]].groupId])

\* [...individualFiles, ...groupItems]; a group carries the date of the
\* member that created it
imagesItems(metadata, files, now) ==
    LET individuals == imagesIndividuals(metadata, files)
        groups == imagesGroupSeq(metadata, files)
    IN  [i \in 1..Len(individuals) |->
            [id |-> individuals[i], isGroup |-> FALSE,
             uploadDate |-> DateOf(metadata, individuals[i], now)]]
        \o [i \in 1..Len(groups) |->
            [id |-> groups[i], isGroup |-> TRUE,
             uploadDate |-> DateOf(metadata, imagesPushed(metadata, files, groups[i])[1].id, now)]]

\* imagesList with the sort turned round: a.uploadDate.localeCompare(b.uploadDate)
imagesListAscending(items) ==
    SortBy(items, {p \in Pairs(items) : p[1].uploadDate < p[2].uploadDate})

\* allItems.sort((a, b) => b.uploadDate.localeCompare(a.uploadDate))
imagesList(items) ==
    SortBy(items, {p \in Pairs(items) : p[1].uploadDate > p[2].uploadDate})

\* the body of GET /api/images at time `now`: the items of the top level in
\* `images`, the members and the title of each group in `groups`
imagesAnswer(metadata, files, now) ==
    [op |-> "images", status |-> 200,
     groups |-> imagesResponse(metadata, files).groups,
     individuals |-> imagesResponse(metadata, files).individuals,
     images |-> imagesList(imagesItems(metadata, files, now))]

\* the entries { id, ... } pushed to groupFiles for the items `ids`
groupEntries(ids) == [i \in 1..Len(ids) |-> [id |-> ids[i]]]

\* groupPushed without the external links
groupPushedFiles(metadata, files, groupId) ==
    groupEntries(SelectSeq(InNameOrder(files),
                           LAMBDA f : /\ f \in DOMAIN metadata
                                      /\ metadata[f].groupId = groupId
                                      /\ NameTable[f].media))

\* groupFiles as pushed in GET /api/groups/:groupId: media files, then links
groupPushed(metadata, files, groupId) ==
    LET phys == SelectSeq(InNameOrder(files),
                          LAMBDA f : /\ f \in DOMAIN metadata
                                     /\ metadata[f].groupId = groupId
                                     /\ NameTable[f].media)
        links == SelectSeq(InNameOrder(DOMAIN metadata),
                           LAMBDA k : metadata[k].isExternal /\ metadata[k].groupId = groupId)
    IN  groupEntries(phys \o links)

\* the first titleImageId found among the members as pushed, Undef if none
groupTitleId(metadata, pushed) ==
    LET titled == {i \in DOMAIN pushed : Truthy(metadata[pushed[i].id].titleImageId)}
    IN  IF titled # {} THEN metadata[pushed[MinOf(titled)].id].titleImageId ELSE Undef

\* groupIsTitle without the titleImageId: the first file is the title
groupIsTitleFirst(titleImageId, id, sorted) == id = sorted[1].id

\* isTitle: titleImageId ? file.id === titleImageId : file.id === groupFiles[0].id
groupIsTitle(titleImageId, id, sorted) ==
    IF Truthy(titleImageId) THEN id = titleImageId ELSE id = sorted[1].id

\* groupFiles.sort(compare) in GET /api/groups/:groupId
groupSorted(metadata, pushed) ==
    SortBy(pushed, {p \in Pairs(pushed) : groupCompare(metadata, p[1], p[2])})

\* the files of the body: groupFiles.map(file => ({ ..., isTitle }))
groupFiles(titleImageId, sorted) ==
    [i \in 1..Len(sorted) |->
        [id |-> sorted[i].id, isTitle |-> groupIsTitle(titleImageId, sorted[i].id, sorted)]]

\* the answer for the members `pushed`: 404 if there is none
groupBody(metadata, groupId, pushed) ==
    IF Len(pushed) = 0
    THEN [op |-> "group", groupId |-> groupId, status |-> 404, files |-> <<>>]
    ELSE [op |-> "group", groupId |-> groupId, status |-> 200,
          files |-> groupFiles(groupTitleId(metadata, pushed), groupSorted(metadata, pushed))]

\* the body of GET /api/groups/:groupId
groupResponse(metadata, files, groupId) ==
    groupBody(metadata, groupId, groupPushed(metadata, files, groupId))

\* category || 'fun', description || '', uploadDate || new Date() of the
\* record of `id`
headOf(metadata, id, now) ==
    [category |-> IF Truthy(metadata[id].category) THEN metadata[id].category ELSE "fun",
     description |-> IF Truthy(metadata[id].description) THEN metadata[id].description ELSE "",
     uploadDate |-> DateOf(metadata, id, now)]

\* category, description and uploadDate of groups[g] in GET /api/images: those
\* of the member that created the entry, the first one pushed
imagesHead(metadata, files, g, now) ==
    headOf(metadata, imagesPushed(metadata, files, g)[1].id, now)

\* category, description and uploadDate of the body of GET /api/groups/:groupId:
\* those of firstFile = groupFiles[0], taken before the sort
groupHead(metadata, files, groupId, now) ==
    headOf(metadata, groupPushed(metadata, files, groupId)[1].id, now)

\* the items { id, path, url, embedUrl, order } of the archive for the items
\* `ids`; a file has a path and no url, a link a url and no path
downloadItems(metadata, ids, path) ==
    [i \in 1..Len(ids) |->
        [id |-> ids[i], path |-> path, order |-> ResolvedOrder(metadata[ids[i]]),
         url |-> IF path THEN Undef ELSE metadata[ids[i]].externalUrl,
         embedUrl |-> IF path THEN Undef ELSE metadata[ids[i]].embedUrl]]

\* allItems.sort(compare) in the zip download
downloadSorted(items) == SortBy(items, {p \in Pairs(items) : downloadCompare(p[1], p[2])})

\* downloadEntries with the names made from the stored order of the item
downloadEntriesByOrder(allItems) ==
    [i \in 1..Len(allItems) |->
        [id |-> allItems[i].id, order |-> allItems[i].order,
         name |-> IF allItems[i].path
                  THEN ToString(allItems[i].order + 1) \o NameTable[allItems[i].id].ext
                  ELSE ToString(allItems[i].order + 1) \o "_external_link.txt",
         text |-> IF allItems[i].path THEN <<>>
                  ELSE <<allItems[i].url,
                         IF Truthy(allItems[i].embedUrl) THEN allItems[i].embedUrl
                         ELSE allItems[i].url>>]]

\* the entries appended to the archive: an item with a path or a url gets the
\* name of the next fileIndex, a link the text with item.url and
\* item.embedUrl || item.url (the two lines of the text, in `text`)
downloadEntries(allItems) ==
    LET added == SelectSeq(allItems, LAMBDA item : item.path \/ Truthy(item.url))
    IN  [i \in 1..Len(added) |->
            [id |-> added[i].id, order |-> added[i].order,
             name |-> IF added[i].path
                      THEN ToString(i) \o NameTable[added[i].id].ext
                      ELSE ToString(i) \o "_external_link.txt",
             text |-> IF added[i].path THEN <<>>
                      ELSE <<added[i].url,
                             IF Truthy(added[i].embedUrl) THEN added[i].embedUrl
                             ELSE added[i].url>>]]

\* the answer for the files `phys` and the links `links` of the group
downloadBody(metadata, groupId, phys, links) ==
    IF Len(phys) = 0 /\ Len(links) = 0
    THEN [op |-> "download", groupId |-> groupId, status |-> 404, entries |-> <<>>]
    ELSE [op |-> "download", groupId |-> groupId, status |-> 200,
          entries |-> downloadEntries(downloadSorted(downloadItems(metadata, phys, TRUE)
                                                     \o downloadItems(metadata, links, FALSE)))]

\* the entries of the zip of GET /api/groups/:groupId/download, in archive order
downloadResponse(metadata, files, groupId) ==
    downloadBody(metadata, groupId,
                 SelectSeq(InNameOrder(files),
                           LAMBDA f : /\ f \in DOMAIN metadata
                                      /\ metadata[f].groupId = groupId
                                      /\ NameTable[f].media),
                 SelectSeq(InNameOrder(DOMAIN metadata),
                           LAMBDA k : metadata[k].isExternal /\ metadata[k].groupId = groupId))

(***************************************************************************)
(* Ingestion.                                                              *)
(***************************************************************************)
RECURSIVE DigitRun(_, _)
\* the run of digits of s that starts at index i
DigitRun(s, i) ==
    IF i <= Len(s) /\ IsDigit(CharAt(s, i)) THEN CharAt(s, i) \o DigitRun(s, i + 1) ELSE ""

RECURSIVE ParseInt(_)
\* parseInt(s, 10) of a string of digits
ParseInt(s) ==
    IF Len(s) = 0 THEN 0
    ELSE 10 * ParseInt(SubSeq(s, 1, Len(s) - 1)) + DigitVal(CharAt(s, Len(s)))

\* nameWithoutExt.match(/\d+/): the first run of digits, "" if there is none
FirstNumber(s) ==
    LET at == {i \in 1..Len(s) : IsDigit(CharAt(s, i))}
    IN  IF at = {} THEN "" ELSE DigitRun(s, MinOf(at))

\* extractOrderFromFilename without the shift to a 0-based order
extractNumberFromFilename(filename) ==
    LET numberMatch == FirstNumber(BaseName(filename))
        number == ParseInt(numberMatch)
    IN  IF numberMatch # "" /\ number >= 1 /\ number <= 9999 THEN number ELSE NullOrder

\* extractOrderFromFilename: a number 1..9999 in the name gives order number - 1
extractOrderFromFilename(filename) ==
    LET numberMatch == FirstNumber(BaseName(filename))
        number == ParseInt(numberMatch)
    IN  IF numberMatch # "" /\ number >= 1 /\ number <= 9999 THEN number - 1 ELSE NullOrder

\* fileFilter of multer: /jpeg|jpg|png|gif|webp/.test(ext) etc. and the MIME type
fileFilter(file) ==
    LET ext == ToLowerCase(ExtName(file.originalname))
        extname == \/ \E t \in {"jpeg", "jpg", "png", "gif", "webp"} : Contains(ext, t)
                   \/ \E t \in {"mp4", "webm", "ogg", "mov", "avi"} : Contains(ext, t)
        mimetype == StartsWith(file.mimetype, "image/") \/ StartsWith(file.mimetype, "video/")
    IN  extname /\ mimetype

\* the order a new member of groupId gets when its name carries no number:
\* one more than the largest order among the files of uploads in that group
nextOrder(metadata, files, groupId) ==
    LET orders == {metadata[f].order :
                     f \in {x \in files : /\ x \in DOMAIN metadata
                                          /\ metadata[x].groupId = groupId
                                          /\ metadata[x].order # NoOrder}}
        maxOrder == IF orders = {} THEN -1 ELSE CHOOSE o \in orders : \A q \in orders : q <= o
    IN  maxOrder + 1

\* what the ingestion computes from the name of a request (computed once)
RequestTable ==
    [name \in {f.originalname : f \in UploadFiles} \cup Urls |->
        [order |-> extractOrderFromFilename(name), ext |-> ExtName(name)]]

FilterTable == [file \in UploadFiles |-> fileFilter(file)]

\* the order of a new item named `name` (original file name, or URL)
initialOrder(d, name, groupId) ==
    LET order == RequestTable[name].order
    IN  IF order = NullOrder /\ Truthy(groupId)
        THEN nextOrder(loadMetadata(d).ret, loadMetadata(d).disk.uploads, groupId)
        ELSE IF order = NullOrder THEN Sentinel
        ELSE order

\* req.body.x || dflt
OrElse(v, dflt) == IF Truthy(v) THEN v ELSE dflt

\* metadata[key] = record
Put(metadata, key, record) ==
    [k \in DOMAIN metadata \cup {key} |-> IF k = key THEN record ELSE metadata[k]]

\* delete metadata[key], for every key of keys
Without(metadata, keys) == [k \in DOMAIN metadata \ keys |-> metadata[k]]

\* backup every 5th entry of the map
BackupEvery == 5

\* what a handler `h` = [disk, res] leaves: the disk after it, and the response
\* it sends
Answer(h) ==
    /\ SetDisk(h.disk)
    /\ resp' = h.res

\* the record POST /api/upload writes
uploadRecord(file, body, order, uploadDate) ==
    [category |-> OrElse(body.category, "fun"),
     description |-> OrElse(body.description, ""),
     type |-> IF StartsWith(file.mimetype, "video/") THEN "video" ELSE "image",
     groupId |-> OrElse(body.groupId, Null),
     order |-> order, isExternal |-> FALSE, titleImageId |-> Undef,
     externalUrl |-> Undef, embedUrl |-> Undef, videoType |-> Undef,
     uploadDate |-> uploadDate,
     keys |-> {"category", "description", "uploadDate", "type", "groupId", "order"}]

\* the end of the handler: the record goes into the map `l` loaded, the map
\* is saved, a backup is taken at every 5th entry  [disk, res]
uploadStore(l, filename, record, fault) ==
    [disk |-> IF Cardinality(DOMAIN l.ret \cup {filename}) % BackupEvery = 0
              THEN createBackup(saveMetadata(l.disk, Put(l.ret, filename, record), fault))
              ELSE saveMetadata(l.disk, Put(l.ret, filename, record), fault),
     res |-> [op |-> "upload", status |-> 200, id |-> filename,
              category |-> record.category, description |-> record.description,
              type |-> record.type, groupId |-> record.groupId, order |-> record.order]]

\* handler of POST /api/upload once multer has stored the file as `filename`
\* [disk, res]
uploadHandler(d, filename, file, body, uploadDate, fault) ==
    uploadStore(loadMetadata(loadMetadata(d).disk), filename,
                uploadRecord(file, body,
                             initialOrder(d, file.originalname, OrElse(body.groupId, Null)),
                             uploadDate),
                fault)

\* upload.single('image'): "none" if the request carries no file, "stored" if
\* the file was written to uploads, otherwise the error multer hands on
multer(file) ==
    IF file = NoFile THEN "none"
    ELSE IF ~FilterTable[file] THEN "Only image and video files are allowed!"
    ELSE IF file.size > FileSizeLimit THEN "File too large"
    ELSE "stored"

\* POST /api/upload, the request being [file, body]
Upload(Requests, FaultSet) ==
    \E req \in Requests, fault \in FaultSet :
        /\ clock < MaxIds
        /\ IF multer(req.file) = "stored"
           THEN LET filename == ToString(clock + 1) \o RequestTable[req.file.originalname].ext
                IN  /\ Answer(uploadHandler([Disk EXCEPT !.uploads = @ \cup {filename}],
                                            filename, req.file, req.body, clock + 1, fault))
                    /\ clock' = clock + 1
                    /\ UNCHANGED <<envCount, cycles>>
           ELSE \* no file: the handler answers 400; an error of multer goes to
                \* the default error handler of express, which answers 500
                /\ resp' = IF multer(req.file) = "none"
                           THEN [op |-> "upload", status |-> 400, error |-> "No file provided"]
                           ELSE [op |-> "upload", status |-> 500, error |-> multer(req.file)]
                /\ UNCHANGED <<uploads, primary, primaryTmp, mirror, mirrorTmp, backups, clock, envCount, cycles>>

\* videoId of a YouTube URL: url.split('v=')[1]?.split('&')[0], or
\* url.split('youtu.be/')[1]?.split('?')[0]; null if the URL has neither form
videoId(url) ==
    IF Contains(url, "youtube.com/watch?v=") THEN SplitHead(SplitSecond(url, "v="), "&")
    ELSE IF Contains(url, "youtu.be/") THEN SplitHead(SplitSecond(url, "youtu.be/"), "?")
    ELSE Null

\* fileId of a Google Drive URL: url.split('/file/d/')[1]?.split('/')[0]
fileId(url) ==
    IF Contains(url, "/file/d/") THEN SplitHead(SplitSecond(url, "/file/d/"), "/") ELSE Null

\* videoType of POST /api/upload-link
videoType(url) ==
    IF Contains(url, "youtube.com") \/ Contains(url, "youtu.be") THEN "youtube"
    ELSE IF Contains(url, "drive.google.com") THEN "googledrive"
    ELSE "unknown"

\* embedUrl of POST /api/upload-link: the URL itself unless an id was found
embedUrl(url) ==
    IF videoType(url) = "youtube" /\ Truthy(videoId(url))
    THEN "https://www.youtube.com/embed/" \o videoId(url)
    ELSE IF videoType(url) = "googledrive" /\ Truthy(fileId(url))
    THEN "https://drive.google.com/file/d/" \o fileId(url) \o "/preview"
    ELSE url

\* what the registration computes from the URL (computed once)
LinkTable == [url \in Urls |-> [videoType |-> videoType(url), embedUrl |-> embedUrl(url)]]

\* the record POST /api/upload-link writes (groupId as sent, undefined if not)
linkRecord(url, body, order, uploadDate) ==
    [category |-> OrElse(body.category, "fun"),
     description |-> OrElse(body.description, ""),
     type |-> "video", groupId |-> body.groupId,
     order |-> order, isExternal |-> TRUE, titleImageId |-> Undef,
     externalUrl |-> url, embedUrl |-> LinkTable[url].embedUrl,
     videoType |-> LinkTable[url].videoType,
     uploadDate |-> uploadDate,
     keys |-> {"category", "description", "uploadDate", "type", "groupId", "order", "isExternal",
               "externalUrl", "embedUrl", "videoType"}]

\* the end of the handler: the record goes into the map `l` loaded and the map
\* is saved  [disk, res]
linkStore(l, linkId, record, fault) ==
    [disk |-> saveMetadata(l.disk, Put(l.ret, linkId, record), fault),
     res |-> [op |-> "link", status |-> 200, id |-> linkId,
              category |-> record.category, description |-> record.description,
              type |-> "video", groupId |-> record.groupId, order |-> record.order,
              externalUrl |-> record.externalUrl, embedUrl |-> record.embedUrl,
              videoType |-> record.videoType]]

\* handler of POST /api/upload-link, linkId being the id it makes  [disk, res]
linkHandler(d, linkId, url, body, uploadDate, fault) ==
    IF ~Truthy(url)
    THEN [disk |-> d, res |-> [op |-> "link", status |-> 400, error |-> "URL is required"]]
    ELSE linkStore(loadMetadata(loadMetadata(d).disk), linkId,
                   linkRecord(url, body, initialOrder(d, url, body.groupId), uploadDate), fault)

\* POST /api/upload-link, the request being [url, body]
UploadLink(Requests, FaultSet) ==
    \E req \in Requests, fault \in FaultSet :
        /\ clock < MaxIds
        /\ Answer(linkHandler(Disk, "link-" \o ToString(clock + 1), req.url, req.body,
                              clock + 1, fault))
        /\ clock' = IF Truthy(req.url) THEN clock + 1 ELSE clock
        /\ UNCHANGED <<envCount, cycles>>

(***************************************************************************)
(* Readers.                                                                *)
(***************************************************************************)
\* a handler that reads: the load `l` may have written the primary file back,
\* and the body `res` is sent  [disk, res]
Read(l, res) == [disk |-> l.disk, res |-> res]

\* GET /api/images
GetImages ==
    /\ Answer(Read(loadMetadata(Disk), imagesAnswer(loadMetadata(Disk).ret, uploads, clock + 1)))
    /\ UNCHANGED <<clock, envCount, cycles>>

\* GET /api/groups/:groupId
GetGroup(GroupSet) ==
    \E groupId \in GroupSet :
        /\ Answer(Read(loadMetadata(Disk), groupResponse(loadMetadata(Disk).ret, uploads, groupId)))
        /\ UNCHANGED <<clock, envCount, cycles>>

\* GET /api/groups/:groupId/download
Download(GroupSet) ==
    \E groupId \in GroupSet :
        /\ Answer(Read(loadMetadata(Disk), downloadResponse(loadMetadata(Disk).ret, uploads, groupId)))
        /\ UNCHANGED <<clock, envCount, cycles>>

(***************************************************************************)
(* Group updates.                                                          *)
(***************************************************************************)
\* the members PUT title and PUT order update: the files of uploads whose
\* record is in the group, and the external links of the group
updatedMembers(metadata, files, groupId) ==
    {f \in files : f \in DOMAIN metadata /\ metadata[f].groupId = groupId}
    \cup {k \in DOMAIN metadata : metadata[k].isExternal /\ metadata[k].groupId = groupId}

\* the status PUT /api/groups/:groupId/title answers before it changes anything,
\* 200 if it goes on to the update
titleCheck(metadata, files, groupId, titleImageId) ==
    IF ~Truthy(titleImageId) THEN 400
    ELSE IF NameTable[titleImageId].link
            /\ (\/ titleImageId \notin DOMAIN metadata
                \/ ~metadata[titleImageId].isExternal
                \/ metadata[titleImageId].groupId # groupId)
    THEN 404
    ELSE IF ~NameTable[titleImageId].link /\ titleImageId \notin files THEN 404
    ELSE IF titleImageId \notin DOMAIN metadata \/ metadata[titleImageId].groupId # groupId
    THEN 400
    ELSE 200

\* PUT /api/groups/:groupId/title
SetTitle(GroupSet, IdSet, FaultSet) ==
    \E groupId \in GroupSet, titleImageId \in IdSet, fault \in FaultSet :
        LET l == loadMetadata(Disk)
            status == titleCheck(l.ret, l.disk.uploads, groupId, titleImageId)
            members == updatedMembers(l.ret, l.disk.uploads, groupId)
            metadata == [k \in DOMAIN l.ret |->
                           IF k \in members
                           THEN [l.ret[k] EXCEPT !.titleImageId = titleImageId,
                                                 !.keys = @ \cup {"titleImageId"}]
                           ELSE l.ret[k]]
        IN  /\ SetDisk(IF status = 200 THEN saveMetadata(l.disk, metadata, fault)
                        ELSE IF Truthy(titleImageId) THEN l.disk
                        ELSE Disk)
            /\ resp' = [op |-> "title", status |-> status, groupId |-> groupId,
                        titleImageId |-> titleImageId]
            /\ UNCHANGED <<clock, envCount, cycles>>

\* fileOrder.indexOf(id), -1 if absent
IndexOf(fileOrder, id) ==
    LET at == {i \in DOMAIN fileOrder : fileOrder[i] = id}
    IN  IF at = {} THEN -1 ELSE MinOf(at) - 1

\* reorderHandler that leaves the external links alone
reorderFilesOnly(d, groupId, fileOrder, fault) ==
    LET l == loadMetadata(d)
        metadata == [k \in DOMAIN l.ret |->
                       IF /\ k \in l.disk.uploads
                          /\ l.ret[k].groupId = groupId
                          /\ IndexOf(fileOrder, k) # -1
                       THEN [l.ret[k] EXCEPT !.order = IndexOf(fileOrder, k),
                                             !.keys = @ \cup {"order"}]
                       ELSE l.ret[k]]
    IN  saveMetadata(l.disk, metadata, fault)

\* PUT /api/groups/:groupId/order with an array fileOrder
reorderHandler(d, groupId, fileOrder, fault) ==
    LET l == loadMetadata(d)
        members == updatedMembers(l.ret, l.disk.uploads, groupId)
        metadata == [k \in DOMAIN l.ret |->
                       IF k \in members /\ IndexOf(fileOrder, k) # -1
                       THEN [l.ret[k] EXCEPT !.order = IndexOf(fileOrder, k),
                                             !.keys = @ \cup {"order"}]
                       ELSE l.ret[k]]
    IN  saveMetadata(l.disk, metadata, fault)

\* the sequences that list every element of the set S once
Arrangements(S) ==
    {p \in [1..Cardinality(S) -> S] : \A x \in S : \E i \in DOMAIN p : p[i] = x}

\* PUT /api/groups/:groupId/order with an array, taken from Orders
ReorderWith(GroupSet, Orders, FaultSet) ==
    \E groupId \in GroupSet, fileOrder \in Orders, fault \in FaultSet :
        /\ SetDisk(reorderHandler(Disk, groupId, fileOrder, fault))
        /\ resp' = [op |-> "order", status |-> 200, groupId |-> groupId,
                    fileOrder |-> fileOrder]
        /\ UNCHANGED <<clock, envCount, cycles>>

\* PUT /api/groups/:groupId/order; isArray: req.body.fileOrder is an array
Reorder(GroupSet, ArraySet, FaultSet) ==
    \E groupId \in GroupSet, isArray \in ArraySet, fault \in FaultSet :
        IF isArray
        THEN ReorderWith({groupId},
                         Arrangements(updatedMembers(loadMetadata(Disk).ret, uploads, groupId))
                             \ {<<>>},
                         {fault})
        ELSE /\ resp' = [op |-> "order", status |-> 400, groupId |-> groupId,
                         error |-> "File order must be an array"]
             /\ UNCHANGED <<uploads, primary, primaryTmp, mirror, mirrorTmp, backups,
                            clock, envCount, cycles>>

(***************************************************************************)
(* Deletion.                                                               *)
(***************************************************************************)
\* deleteHandler without the tests that the item exists: the id is removed
\* from uploads and from the map, and the answer is a success
deleteUnchecked(d, itemId, fault) ==
    [disk |-> saveMetadata([loadMetadata(d).disk EXCEPT !.uploads = @ \ {itemId}],
                           Without(loadMetadata(d).ret, {itemId}), fault),
     res |-> [op |-> "delete", status |-> 200, id |-> itemId, deletedCount |-> 1]]

\* deleteHandler with the group branch taking every external link of the map,
\* whatever its groupId
deleteHandlerEveryLink(d, itemId, fault) ==
    LET l == loadMetadata(d)
        metadata == l.ret
        files == l.disk.uploads
    IN  IF NameTable[itemId].group
        THEN LET phys == {f \in files : f \in DOMAIN metadata /\ metadata[f].groupId = itemId}
                 rest == Without(metadata, phys)
                 links == {k \in DOMAIN rest : rest[k].isExternal}
             IN  [disk |-> saveMetadata([l.disk EXCEPT !.uploads = @ \ phys],
                                        Without(rest, links), fault),
                  res |-> [op |-> "delete", status |-> 200, id |-> itemId,
                           deletedCount |-> Cardinality(phys) + Cardinality(links)]]
        ELSE deleteUnchecked(d, itemId, fault)

\* DELETE /api/images/:id  [disk, res]
deleteHandler(d, itemId, fault) ==
    LET l == loadMetadata(d)
        metadata == l.ret
        files == l.disk.uploads
    IN  IF NameTable[itemId].group
        THEN LET phys == {f \in files : f \in DOMAIN metadata /\ metadata[f].groupId = itemId}
                 rest == Without(metadata, phys)
                 links == {k \in DOMAIN rest : rest[k].isExternal /\ rest[k].groupId = itemId}
             IN  [disk |-> saveMetadata([l.disk EXCEPT !.uploads = @ \ phys],
                                        Without(rest, links), fault),
                  res |-> [op |-> "delete", status |-> 200, id |-> itemId,
                           deletedCount |-> Cardinality(phys) + Cardinality(links)]]
        ELSE IF NameTable[itemId].link
        THEN IF itemId \in DOMAIN metadata
             THEN [disk |-> saveMetadata(l.disk, Without(metadata, {itemId}), fault),
                   res |-> [op |-> "delete", status |-> 200, id |-> itemId]]
             ELSE [disk |-> l.disk, res |-> [op |-> "delete", status |-> 404, id |-> itemId]]
        ELSE IF itemId \in files
        THEN [disk |-> IF itemId \in DOMAIN metadata
                       THEN saveMetadata([l.disk EXCEPT !.uploads = @ \ {itemId}],
                                         Without(metadata, {itemId}), fault)
                       ELSE [l.disk EXCEPT !.uploads = @ \ {itemId}],
              res |-> [op |-> "delete", status |-> 200, id |-> itemId]]
        ELSE [disk |-> l.disk, res |-> [op |-> "delete", status |-> 404, id |-> itemId]]

\* DELETE /api/images/:id
Delete(IdSet, FaultSet) ==
    \E itemId \in IdSet, fault \in FaultSet :
        /\ Answer(deleteHandler(Disk, itemId, fault))
        /\ UNCHANGED <<clock, envCount, cycles>>

(***************************************************************************)
(* Backup endpoints and restart.                                           *)
(***************************************************************************)
\* POST /api/backup
Backup ==
    /\ Cardinality(backups) < MaxBackups
    /\ SetDisk(createBackup(Disk))
    /\ resp' = [op |-> "backup", status |-> 200, backupName |-> Cardinality(backups) + 1]
    /\ UNCHANGED <<clock, envCount, cycles>>

\* POST /api/backup, new Date() reading a time of Times that is not before
\* the time of any snapshot: the millisecond of the latest one, or a later one
BackupAt(Times) ==
    \E name \in Times :
        /\ \A b \in backups : b.name <= name
        /\ SetDisk(createBackupAt(Disk, name))
        /\ resp' = [op |-> "backup", status |-> 200, backupName |-> name]
        /\ UNCHANGED <<clock, envCount, cycles>>

\* what a run of syncMetadataWithFiles logs
syncLog(r, again) ==
    [op |-> "sync", status |-> 200, restored |-> r.restored, loaded |-> r.loaded,
     pruned |-> r.pruned, added |-> r.added, updated |-> r.updated, again |-> again]

\* POST /api/restore/:backupName
Restore(Snapshots, FaultSet) ==
    \E backupName \in Snapshots, fault \in FaultSet :
        LET r == restoreFromBackup(Disk, backupName)
            sy == syncMetadataWithFiles(r.disk, fault)
        IN  /\ SetDisk(IF r.ok THEN sy.disk ELSE r.disk)
            /\ resp' = [op |-> "restore", status |-> IF r.ok THEN 200 ELSE 500,
                        backupName |-> backupName]
            /\ UNCHANGED <<clock, envCount, cycles>>

\* the process starts (again): syncMetadataWithFiles() before app.listen
Startup(FaultSet) ==
    \E fault \in FaultSet :
        LET sy == syncMetadataWithFiles(Disk, fault)
        IN  /\ SetDisk(sy.disk)
            /\ resp' = syncLog(sy, resp.op = "sync")
            /\ UNCHANGED <<clock, envCount, cycles>>

(***************************************************************************)
(* The store called on its own.                                            *)
(***************************************************************************)
\* saveMetadata(m)
SaveCall(MapSet, FaultSet) ==
    \E m \in MapSet, fault \in FaultSet :
        /\ SetDisk(saveMetadata(Disk, m, fault))
        /\ resp' = [op |-> "save", status |-> 0, map |-> m, fault |-> fault]
        /\ UNCHANGED <<clock, envCount, cycles>>

\* loadMetadata(); `saved` holds the map of the saveMetadata call that came
\* just before, if there was one and its writes succeeded
LoadCall(FaultSet) ==
    \E fault \in FaultSet :
        LET l == loadMetadataWithFallback(Disk, fault)
        IN  /\ SetDisk(l.disk)
            /\ resp' = [op |-> "load", status |-> 0, ret |-> l.ret, src |-> l.src,
                        threw |-> l.threw, fault |-> fault,
                        saved |-> IF resp.op = "save" /\ resp.fault = "none"
                                  THEN <<resp.map>> ELSE <<>>]
            /\ UNCHANGED <<clock, envCount, cycles>>

(***************************************************************************)
(* The environment: what happens to the files outside the server.          *)
(***************************************************************************)
\* a media file put into uploads by hand
StrayFile == "0.mp4"

\* the uploads directory is emptied (ephemeral storage, a redeploy)
EnvWipeUploads ==
    /\ uploads # {}
    /\ uploads' = {}
    /\ envCount < MaxEnv
    /\ envCount' = envCount + 1
    /\ UNCHANGED cycles
    /\ resp' = [op |-> "env", status |-> 0]
    /\ UNCHANGED <<primary, primaryTmp, mirror, mirrorTmp, backups, clock>>

\* one media file is removed from uploads by hand
EnvLoseFile ==
    \E f \in MediaFiles(uploads) :
        /\ uploads' = uploads \ {f}
        /\ envCount < MaxEnv
        /\ envCount' = envCount + 1
        /\ UNCHANGED cycles
        /\ resp' = [op |-> "env", status |-> 0]
        /\ UNCHANGED <<primary, primaryTmp, mirror, mirrorTmp, backups, clock>>

\* a media file is copied into uploads by hand
EnvAddFile ==
    /\ StrayFile \notin uploads
    /\ uploads' = uploads \cup {StrayFile}
    /\ envCount < MaxEnv
    /\ envCount' = envCount + 1
    /\ UNCHANGED cycles
    /\ resp' = [op |-> "env", status |-> 0]
    /\ UNCHANGED <<primary, primaryTmp, mirror, mirrorTmp, backups, clock>>

\* the primary metadata file is damaged (invalid JSON) or lost
EnvDamagePrimary ==
    \E content \in {Corrupt, Absent} :
        /\ primary # content
        /\ primary' = content
        /\ envCount < MaxEnv
        /\ envCount' = envCount + 1
        /\ UNCHANGED cycles
        /\ resp' = [op |-> "env", status |-> 0]
        /\ UNCHANGED <<uploads, primaryTmp, mirror, mirrorTmp, backups, clock>>

\* the copy of the metadata file in the backups directory is damaged or lost
EnvDamageMirror ==
    \E content \in {Corrupt, Absent} :
        /\ mirror # content
        /\ mirror' = content
        /\ envCount < MaxEnv
        /\ envCount' = envCount + 1
        /\ UNCHANGED cycles
        /\ resp' = [op |-> "env", status |-> 0]
        /\ UNCHANGED <<uploads, primary, primaryTmp, mirrorTmp, backups, clock>>

(***************************************************************************)
(* Crashes: the process dies inside a call that writes.  What it had       *)
(* written stays; nothing is answered.                                     *)
(***************************************************************************)
Crashed(d) ==
    /\ envCount < MaxCrashes
    /\ envCount' = envCount + 1
    /\ UNCHANGED cycles
    /\ SetDisk(d)
    /\ resp' = [op |-> "crash", status |-> 0]

\* inside the saveMetadata of an upload, a link registration, a delete, a
\* reorder or the reconciliation
CrashInSave(Uploads, Links, IdSet, GroupSet) ==
    \E point \in CrashPoints :
        \E d \in {uploadHandler([Disk EXCEPT !.uploads = @ \cup
                                    {ToString(clock + 1) \o RequestTable[req.file.originalname].ext}],
                                ToString(clock + 1) \o RequestTable[req.file.originalname].ext,
                                req.file, req.body, clock + 1, point).disk :
                     req \in {r \in Uploads : multer(r.file) = "stored"}}
                 \cup {linkHandler(Disk, "link-" \o ToString(clock + 1), req.url, req.body,
                                   clock + 1, point).disk : req \in Links}
                 \cup {deleteHandler(Disk, itemId, point).disk : itemId \in IdSet}
                 \cup UNION {{reorderHandler(Disk, groupId, fileOrder, point) :
                                 fileOrder \in Arrangements(updatedMembers(
                                     loadMetadata(Disk).ret, uploads, groupId))} :
                              groupId \in GroupSet}
                 \cup {syncMetadataWithFiles(Disk, point).disk} :
            /\ clock < MaxIds
            /\ clock' = clock + 1
            /\ Crashed([d EXCEPT !.backups = backups])

\* inside createBackup
CrashInBackup ==
    \E d \in createBackupCrashes(Disk) :
        /\ Cardinality(backups) < MaxBackups
        /\ Crashed(d)
        /\ UNCHANGED clock

\* inside restoreFromBackup, called by the route or by the reconciliation
CrashInRestore(Snapshots) ==
    \E name \in Snapshots \cap SnapshotNames(Disk) :
        \E d \in restoreCrashes(Disk, name) :
            /\ Crashed(d)
            /\ UNCHANGED clock

\* inside the write of the fallback of loadMetadataWithFallback, which a
\* start after a crash may reach
CrashInLoad ==
    \E fault \in PrimaryFaults :
        /\ loadMetadataWithFallback(Disk, fault).src = "backup"
        /\ SetDisk(loadMetadataWithFallback(Disk, fault).disk)
        /\ resp' = [op |-> "crash", status |-> 0]
        /\ UNCHANGED <<clock, envCount, cycles>>

(***************************************************************************)
(* Inputs.                                                                 *)
(***************************************************************************)
\* the ids a client names: those of the items on disk or in the map, and the
\* name of a file that is not there
KnownIds ==
    MediaFiles(uploads) \cup (IF Parses(primary) THEN DOMAIN primary.text ELSE {})
    \cup {StrayFile}

\* form fields without labels, with and without a group
InGroup == [category |-> Undef, description |-> Undef, groupId |-> "group-1"]

NoGroup == [category |-> Undef, description |-> Undef, groupId |-> Undef]

\* uploads of the API specification: into the group a file whose name carries
\* no number and one whose name carries one; a file outside any group; a file
\* the filter rejects
ApiUploads ==
    {[file |-> Jpg("photo.jpg"), body |-> InGroup],
     [file |-> Jpg("photo_1.jpg"), body |-> InGroup],
     [file |-> Jpg("photo.jpg"), body |-> NoGroup],
     [file |-> [originalname |-> "notes.txt", mimetype |-> "text/plain", size |-> 1], body |-> NoGroup]}

\* link registrations of the API specification
ApiLinks == {[url |-> "https://youtu.be/abc", body |-> b] : b \in {InGroup, NoGroup}}

\* requests of the reconciliation specification
SyncUploads == {[file |-> Jpg("photo.jpg"), body |-> NoGroup]}

SyncLinks == {[url |-> "https://youtu.be/abc", body |-> NoGroup]}

\* form fields that name a group whose id has another form
InPlainGroup == [category |-> Undef, description |-> Undef, groupId |-> PlainGroup]

EdgeGroups == GroupNames \cup {PlainGroup}

\* uploads of the validation specification: a file into each group; a file
\* whose extension only contains an accepted one; an accepted extension with
\* another MIME type; a file over the size limit; a request without a file
EdgeUploads ==
    {[file |-> Jpg("photo.jpg"), body |-> InGroup],
     [file |-> Jpg("photo.jpg"), body |-> InPlainGroup],
     [file |-> [originalname |-> "photo.jpgx", mimetype |-> "image/jpeg", size |-> 1],
      body |-> NoGroup],
     [file |-> [originalname |-> "photo.jpg", mimetype |-> "text/plain", size |-> 1],
      body |-> NoGroup],
     [file |-> [originalname |-> "film.mp4", mimetype |-> "video/mp4", size |-> FileSizeLimit + 1],
      body |-> NoGroup],
     [file |-> NoFile, body |-> NoGroup]}

\* link registrations of the validation specification: every URL outside a
\* group, one into a group, and a request without url
EdgeLinks ==
    {[url |-> u, body |-> NoGroup] : u \in Urls \ {"https://youtu.be/abc"}}
    \cup {[url |-> "https://example.com/video", body |-> InPlainGroup],
          [url |-> Undef, body |-> NoGroup]}

\* the two uploads of the numbered pair; the extension kept in the stored name
\* tells them apart
PairUploads ==
    {[file |-> Jpg("photo_2.jpg"), body |-> InGroup],
     [file |-> [originalname |-> "photo_1.png", mimetype |-> "image/png", size |-> 1],
      body |-> InGroup]}

\* fileOrder arrays of a client: ids of items of any group and of none, and
\* an id that is no item, each at most once
FileOrders ==
    {o \in UNION {[1..n -> KnownIds] : n \in 1..MaxOrderLen} :
        \A i, j \in DOMAIN o : o[i] = o[j] => i = j}

\* maps handed to saveMetadata: records as each handler writes them
StoreMaps ==
    LET plain == NoGroup
        grouped == [category |-> "art", description |-> "sea", groupId |-> "group-1"]
        file == uploadRecord(Jpg("photo.jpg"), plain, Sentinel, 1)
        titled == [uploadRecord(Jpg("photo_1.jpg"), grouped, 0, 1)
                      EXCEPT !.titleImageId = "1.jpg", !.keys = @ \cup {"titleImageId"}]
    IN  {EmptyMap,
         Put(EmptyMap, "1.jpg", file),
         Put(EmptyMap, "link-1", linkRecord("https://youtu.be/abc", plain, Sentinel, 1)),
         Put(Put(EmptyMap, "1.jpg", titled), "link-1", linkRecord("https://youtu.be/abc", grouped, 1, 1))}

(***************************************************************************)
(* Specifications.                                                         *)
(***************************************************************************)
\* a group member stored by the first grouping version of the server, which
\* wrote no order (server.js:175-181)
LegacyFile == "0.jpg"

LegacyRecord ==
    [category |-> "fun", description |-> "", type |-> "image", groupId |-> "group-1",
     order |-> NoOrder, isExternal |-> FALSE, titleImageId |-> Undef,
     externalUrl |-> Undef, embedUrl |-> Undef, videoType |-> Undef,
     uploadDate |-> 0,
     keys |-> {"category", "description", "uploadDate", "type", "groupId"}]

\* a request slot whose handler has not been called
Idle == [pc |-> "idle", proc |-> 0, kind |-> "", id |-> "", loaded |-> EmptyMap,
         record |-> EmptyMap]

\* no handler has been called
NoCycles == [h \in 1..MaxCycles |-> Idle]

\* the disk after the first start: a fresh install, or one that holds a file
\* of the earlier version
Init ==
    /\ \E legacy \in BOOLEAN :
          /\ uploads = IF legacy THEN {Marker, LegacyFile} ELSE {Marker}
          /\ primary = IF legacy THEN JsonFile(Stringify(Put(EmptyMap, LegacyFile, LegacyRecord)))
                       ELSE Absent
    /\ primaryTmp = Absent
    /\ mirror = Absent
    /\ mirrorTmp = Absent
    /\ backups = {}
    /\ clock = 0
    /\ envCount = 0
    /\ cycles = NoCycles
    /\ resp = [op |-> "start", status |-> 0]

\* the API with a working disk
Next ==
    \/ Upload(ApiUploads, NoFault)
    \/ UploadLink(ApiLinks, NoFault)
    \/ GetImages
    \/ GetGroup(GroupNames)
    \/ Download(GroupNames)
    \/ SetTitle(GroupNames, KnownIds, NoFault)
    \/ Reorder(GroupNames, {TRUE}, NoFault)
    \/ Delete(KnownIds \cup GroupNames, NoFault)

Spec == Init /\ [][Next]_vars

\* the API with a disk whose writes may fail
NextFault ==
    \/ Upload(ApiUploads, AnyFault)
    \/ UploadLink(ApiLinks, AnyFault)
    \/ GetImages
    \/ Delete(KnownIds, AnyFault)

SpecFault == Init /\ [][NextFault]_vars

\* the metadata store alone: saves that may fail, loads, damaged files
NextStore ==
    \/ SaveCall(StoreMaps, AnyFault)
    \/ LoadCall(LoadFaults)
    \/ EnvDamagePrimary
    \/ EnvDamageMirror

SpecStore == Init /\ [][NextStore]_vars

\* restarts of the server over a disk that drifts
NextSync ==
    \/ Upload(SyncUploads, NoFault)
    \/ UploadLink(SyncLinks, NoFault)
    \/ Backup
    \/ Startup(NoFault)
    \/ EnvWipeUploads
    \/ EnvLoseFile
    \/ EnvAddFile
    \/ EnvDamagePrimary

SpecSync == Init /\ [][NextSync]_vars

\* the API with requests that fail validation and ids of every form
NextEdge ==
    \/ Upload(EdgeUploads, NoFault)
    \/ UploadLink(EdgeLinks, NoFault)
    \/ GetGroup(EdgeGroups)
    \/ SetTitle(EdgeGroups, KnownIds \cup {Undef}, NoFault)
    \/ Reorder(EdgeGroups, {FALSE}, NoFault)
    \/ Delete(KnownIds \cup EdgeGroups \cup {"link-1"}, NoFault)

SpecEdge == Init /\ [][NextEdge]_vars

\* the two numbered files uploaded to one group, in either order
NextPair ==
    \/ Upload(PairUploads, NoFault)
    \/ GetImages
    \/ GetGroup(GroupNames)
    \/ Download(GroupNames)
    \/ SetTitle(GroupNames, KnownIds, NoFault)
    \/ Delete(KnownIds, NoFault)

SpecPair == Init /\ [][NextPair]_vars

\* snapshots taken and restored by name
NextRestore ==
    \/ Upload(SyncUploads, NoFault)
    \/ UploadLink(SyncLinks, NoFault)
    \/ Backup
    \/ Restore(1..MaxBackups, NoFault)
    \/ GetImages
    \/ Delete(KnownIds, NoFault)

SpecRestore == Init /\ [][NextRestore]_vars

\* three files uploaded in an earlier run of the server
EarlierFiles == {"0.jpg", "0.png", "0.mp4"}

EarlierMap ==
    [f \in EarlierFiles |->
        uploadRecord([originalname |-> f,
                      mimetype |-> IF f = "0.mp4" THEN "video/mp4" ELSE "image/jpeg",
                      size |-> 1],
                     NoGroup, Sentinel, 0)]

\* the disk of a gallery in use: the earlier files, their records saved
InitBackup ==
    /\ uploads = {Marker} \cup EarlierFiles
    /\ primary = JsonFile(Stringify(EarlierMap))
    /\ primaryTmp = Absent
    /\ mirror = JsonFile(Stringify(EarlierMap))
    /\ mirrorTmp = Absent
    /\ backups = {}
    /\ clock = 0
    /\ envCount = 0
    /\ cycles = NoCycles
    /\ resp = [op |-> "start", status |-> 0]

\* uploads, link registrations and deletions of stored files
NextBackup ==
    \/ Upload(ApiUploads, NoFault)
    \/ UploadLink(ApiLinks, NoFault)
    \/ Delete(MediaFiles(uploads), NoFault)

SpecBackup == InitBackup /\ [][NextBackup]_vars

\* reorders with arrays of every content, and the listing of the group
NextOrder ==
    \/ Upload(ApiUploads, NoFault)
    \/ UploadLink(ApiLinks, NoFault)
    \/ ReorderWith(GroupNames, FileOrders, NoFault)
    \/ GetGroup(GroupNames)

SpecOrder == Init /\ [][NextOrder]_vars

\* the server over a process that may die inside any call that writes, and
\* is started again
NextCrash ==
    \/ Upload(SyncUploads, NoFault)
    \/ Backup
    \/ Restore(1..MaxBackups, NoFault)
    \/ Startup(NoFault)
    \/ CrashInSave(SyncUploads, SyncLinks, KnownIds, GroupNames)
    \/ CrashInBackup
    \/ CrashInRestore(1..MaxBackups)
    \/ CrashInLoad

SpecCrash == Init /\ [][NextCrash]_vars

\* the slots of the requests in flight, all handled by one server process, or
\* each by a process of its own
OneProcess == [h \in 1..MaxCycles |-> 1]
TwoProcesses == [h \in 1..MaxCycles |-> h]

\* a handler is one callback of its process's event loop and makes only
\* synchronous calls between loadMetadata() and saveMetadata(): while the
\* cycle of a handler of process `proc` is open, no second handler of that
\* process is called
runsInterleaved(c, h, proc) == TRUE
runsToCompletion(c, h, proc) ==
    \A k \in DOMAIN c \ {h} : c[k].pc = "loaded" => c[k].proc # proc

\* POST /api/upload down to `const metadata = loadMetadata()`: multer has
\* stored the file, the handler computes the order, builds the record and holds
\* the map it loaded
BeginUpload(Requests, ProcOf) ==
    \E h \in DOMAIN cycles, req \in Requests :
        /\ clock < MaxIds
        /\ multer(req.file) = "stored"
        /\ cycles[h].pc = "idle"
        /\ runsToCompletion(cycles, h, ProcOf[h])
        /\ LET filename == ToString(clock + 1) \o RequestTable[req.file.originalname].ext
               d == [Disk EXCEPT !.uploads = @ \cup {filename}]
               l == loadMetadata(loadMetadata(d).disk)
           IN  /\ SetDisk(l.disk)
               /\ cycles' = [cycles EXCEPT ![h] =
                     [pc |-> "loaded", proc |-> ProcOf[h], kind |-> "upload", id |-> filename,
                      loaded |-> l.ret,
                      record |-> uploadRecord(req.file, req.body,
                                     initialOrder(d, req.file.originalname,
                                                  OrElse(req.body.groupId, Null)),
                                     clock + 1)]]
        /\ clock' = clock + 1
        /\ UNCHANGED <<envCount, resp>>

\* POST /api/upload-link down to `const metadata = loadMetadata()`
BeginLink(Requests, ProcOf) ==
    \E h \in DOMAIN cycles, req \in Requests :
        /\ clock < MaxIds
        /\ Truthy(req.url)
        /\ cycles[h].pc = "idle"
        /\ runsToCompletion(cycles, h, ProcOf[h])
        /\ LET l == loadMetadata(loadMetadata(Disk).disk)
           IN  /\ SetDisk(l.disk)
               /\ cycles' = [cycles EXCEPT ![h] =
                     [pc |-> "loaded", proc |-> ProcOf[h], kind |-> "link",
                      id |-> "link-" \o ToString(clock + 1),
                      loaded |-> l.ret,
                      record |-> linkRecord(req.url, req.body,
                                     initialOrder(Disk, req.url, req.body.groupId),
                                     clock + 1)]]
        /\ clock' = clock + 1
        /\ UNCHANGED <<envCount, resp>>

\* the rest of the handler of cycle `c` on the disk `d`: metadata[id] = record
\* on the map the handler holds, saveMetadata(metadata), the answer
\* [disk, res]
cycleStoreReloaded(c, d) ==
    IF c.kind = "upload"
    THEN uploadStore(loadMetadata(d), c.id, c.record, "none")
    ELSE linkStore(loadMetadata(d), c.id, c.record, "none")
cycleStore(c, d) ==
    IF c.kind = "upload"
    THEN uploadStore([ret |-> c.loaded, disk |-> d], c.id, c.record, "none")
    ELSE linkStore([ret |-> c.loaded, disk |-> d], c.id, c.record, "none")

\* a handler that has loaded the map goes on to its end
EndCycle ==
    \E h \in DOMAIN cycles :
        /\ cycles[h].pc = "loaded"
        /\ Answer(cycleStore(cycles[h], Disk))
        /\ cycles' = [cycles EXCEPT ![h].pc = "done"]
        /\ UNCHANGED <<clock, envCount>>

\* requests arriving together at one server process
NextLoop ==
    \/ BeginUpload(ApiUploads, OneProcess)
    \/ BeginLink(ApiLinks, OneProcess)
    \/ EndCycle
    \/ GetImages

SpecLoop == Init /\ [][NextLoop]_vars

\* two server processes on one data directory, a request at each
NextShared ==
    \/ BeginUpload(ApiUploads, TwoProcesses)
    \/ BeginLink(ApiLinks, TwoProcesses)
    \/ EndCycle
    \/ GetImages

SpecShared == Init /\ [][NextShared]_vars

\* snapshots taken by request at times that need not differ, restores and
\* restarts
NextStamp ==
    \/ Upload(SyncUploads, NoFault)
    \/ UploadLink(SyncLinks, NoFault)
    \/ Delete(KnownIds, NoFault)
    \/ BackupAt(1..MaxBackups)
    \/ Restore(1..MaxBackups, NoFault)
    \/ Startup(NoFault)

SpecStamp == Init /\ [][NextStamp]_vars

\* the listing and the detail served over a primary metadata file that may be
\* lost or damaged
NextRead ==
    \/ Upload(ApiUploads, NoFault)
    \/ UploadLink(ApiLinks, NoFault)
    \/ GetImages
    \/ GetGroup(GroupNames)
    \/ EnvDamagePrimary

SpecRead == Init /\ [][NextRead]_vars

\* items made and deleted, snapshots taken, the server restarted; no restore
\* is requested
NextDelete ==
    \/ Upload(SyncUploads, NoFault)
    \/ UploadLink(SyncLinks, NoFault)
    \/ Delete(KnownIds, NoFault)
    \/ Backup
    \/ Startup(NoFault)
    \/ GetImages

SpecDelete == Init /\ [][NextDelete]_vars

\* uploads of files of every kind the filter lets through, listings and restarts
NextSeen ==
    \/ Upload(EdgeUploads, NoFault)
    \/ UploadLink(ApiLinks, NoFault)
    \/ GetImages
    \/ Startup(NoFault)

SpecSeen == Init /\ [][NextSeen]_vars

\* uploads of a recognized and of an unrecognized kind
DurableUploads ==
    {[file |-> Jpg("photo.jpg"), body |-> InGroup],
     [file |-> [originalname |-> "photo.jpgx", mimetype |-> "image/jpeg", size |-> 1],
      body |-> NoGroup]}

\* uploads and snapshots, the process dying inside a write, restarts; no
\* delete and no restore is requested
NextDurable ==
    \/ Upload(DurableUploads, NoFault)
    \/ Backup
    \/ Startup(NoFault)
    \/ CrashInSave(DurableUploads, SyncLinks, {}, {})
    \/ CrashInBackup

SpecDurable == Init /\ [][NextDurable]_vars

(***************************************************************************)
(* Properties.                                                             *)
(***************************************************************************)
\* the metadata map the server reads from the disk as it is
Persisted == loadMetadata(Disk).ret

\* the order of item id in the persisted map, a missing order read as 999
OrderOf(id) == ResolvedOrder(Persisted[id])

\* the pair (order, id) of a is no greater than that of b
PairLeq(a, b) ==
    \/ OrderOf(a) < OrderOf(b)
    \/ OrderOf(a) = OrderOf(b) /\ (a = b \/ NameBefore(a, b))

\* ids is a sequence of ids that is non-decreasing in (order, id)
InPairOrder(ids) == \A i \in 1..(Len(ids) - 1) : PairLeq(ids[i], ids[i + 1])

\* the ids of a sequence of listed members
IdsOf(files) == [i \in 1..Len(files) |-> files[i].id]

\* the first of the members by (order, id)
FirstMember(members) == CHOOSE m \in members : \A n \in members : PairLeq(m, n)

\* the titleImageId values set on the members
TitleIds(members) ==
    {Persisted[m].titleImageId : m \in {n \in members : Truthy(Persisted[n].titleImageId)}}

\* the members GET /api/groups/:groupId flags as the title
Flagged(files) == {files[i].id : i \in {j \in 1..Len(files) : files[j].isTitle}}

\* C1: after a successful POST /api/upload the returned id names a file of
\* uploads and a record of the persisted metadata map, and the record's
\* category, description and type are those of the response.
UploadIsPersisted ==
    (resp.op = "upload" /\ resp.status = 200) =>
        /\ resp.id \in uploads
        /\ resp.id \in DOMAIN Persisted
        /\ Persisted[resp.id].category = resp.category
        /\ Persisted[resp.id].description = resp.description
        /\ Persisted[resp.id].type = resp.type

\* C2: once syncMetadataWithFiles has completed, the keys of the persisted
\* map that are not marked external are the recognized media files of uploads,
\* and every record the run added has category 'fun', an empty description,
\* the type of its extension, groupId null and order 999.
SyncReconciles ==
    resp.op = "sync" =>
        /\ {k \in DOMAIN Persisted : ~Persisted[k].isExternal} = MediaFiles(uploads)
        /\ \A k \in resp.added :
              /\ Persisted[k].category = "fun"
              /\ Persisted[k].description = ""
              /\ Persisted[k].type = (IF NameTable[k].ext \in VideoExts THEN "video" ELSE "image")
              /\ Persisted[k].groupId = Null
              /\ Persisted[k].order = 999

\* a run that removed a record and added one, a link being recorded
SyncPrunedAndAdded ==
    /\ resp.op = "sync"
    /\ resp.pruned # {}
    /\ resp.added # {}
    /\ \E k \in DOMAIN Persisted : Persisted[k].isExternal

\* C3 as stated: a run of syncMetadataWithFiles that follows another run
\* directly finds nothing to update and changes neither the metadata map nor
\* the file set.
SecondSyncFindsNothing ==
    [][(resp.op = "sync" /\ resp'.op = "sync") =>
          (~resp'.updated /\ uploads' = uploads /\ Persisted' = Persisted)]_vars

\* C3 amended: a run of syncMetadataWithFiles that follows another run directly
\* leaves the metadata map and the file set as the first run left them (it may
\* restore the newest snapshot and remove the same records once more).
SecondSyncChangesNothing ==
    [][(resp.op = "sync" /\ resp'.op = "sync") =>
          (uploads' = uploads /\ Persisted' = Persisted)]_vars

\* a second run in a row that restored a snapshot and updated the map again
SecondSyncUpdated ==
    resp.op = "sync" /\ resp.again /\ resp.updated /\ resp.restored # 0

\* C4: a run of syncMetadataWithFiles that finds no recognized media file in
\* uploads while a snapshot exists restores the snapshot of the greatest name
\* before it removes records: the files of that snapshot are in uploads after
\* the run and no record of one of them was removed.
SyncRestoresNewestFirst ==
    [][(resp'.op = "sync" /\ MediaFiles(uploads) = {} /\ backups # {}) =>
          LET newest == CHOOSE b \in backups : \A c \in backups : c.name <= b.name
          IN  /\ resp'.restored = newest.name
              /\ newest.files \subseteq uploads'
              /\ resp'.pruned \cap newest.files = {}]_vars

\* a run that restored the newer of two snapshots, which held recorded files
NewestSnapshotRestored ==
    /\ resp.op = "sync"
    /\ resp.restored = 2
    /\ \E b \in backups : b.name = 1 /\ MediaFiles(b.files) = {}
    /\ DOMAIN resp.loaded \cap MediaFiles(uploads) # {}

\* C5: loadMetadata never throws; it returns the map of the primary file when
\* that file parses; otherwise, when the copy in the backups directory parses,
\* the map of the copy, the primary file rewritten to the copy's contents (the
\* disk taking the write); otherwise the empty map.
LoadFallsBack ==
    [][resp'.op = "load" =>
          /\ ~resp'.threw
          /\ IF Parses(primary)
             THEN resp'.ret = ParseJSON(primary.text) /\ primary' = primary
             ELSE IF Parses(mirror)
             THEN /\ resp'.ret = ParseJSON(mirror.text)
                  /\ resp'.fault = "none" => primary' = mirror
             ELSE resp'.ret = EmptyMap]_vars

\* a load that found the primary file unusable and took the copy
LoadedFromBackup ==
    /\ resp.op = "load"
    /\ resp.src = "backup"
    /\ resp.fault = "none"
    /\ resp.ret # EmptyMap
    /\ primary = mirror

\* the map m without the attributes whose value is undefined
Defined(m) ==
    [k \in DOMAIN m |->
        [m[k] EXCEPT !.keys = {f \in @ : ~IsUndefined(f, m[k][f])}]]

\* C6 as stated: loadMetadata() right after a saveMetadata(m) whose writes
\* succeeded returns a map identical to m, and saving the loaded map again
\* leaves the primary file unchanged.
RoundTripIdentical ==
    (resp.op = "load" /\ resp.saved # <<>>) =>
        /\ resp.ret = resp.saved[1]
        /\ saveMetadata(Disk, resp.ret, "none").primary = primary

\* C6 amended: loadMetadata() right after a saveMetadata(m) whose writes
\* succeeded returns m without the attributes whose value is undefined (m
\* itself when it has none: every map that loadMetadata returned), and saving
\* the loaded map again leaves the primary file unchanged.
RoundTripDefined ==
    (resp.op = "load" /\ resp.saved # <<>>) =>
        /\ resp.ret = Defined(resp.saved[1])
        /\ saveMetadata(Disk, resp.ret, "none").primary = primary

\* a load right after the save of a map with records and no undefined attribute
RoundTripOfDefinedMap ==
    /\ resp.op = "load"
    /\ resp.saved # <<>>
    /\ resp.saved[1] # EmptyMap
    /\ resp.ret = resp.saved[1]

MembersInPairOrder ==
    /\ resp.op = "images" =>
          \A g \in DOMAIN resp.groups : InPairOrder(IdsOf(resp.groups[g].files))
    /\ (resp.op = "group" /\ resp.status = 200) => InPairOrder(IdsOf(resp.files))
    /\ (resp.op = "download" /\ resp.status = 200) => InPairOrder(IdsOf(resp.entries))

\* a listing of three members where the orders, not the ids, decide a place
ListedAgainstIdOrder ==
    /\ resp.op = "group"
    /\ Len(resp.files) = 3
    /\ \E i \in 1..2 : NameBefore(resp.files[i + 1].id, resp.files[i].id)

\* the title the listing of the members `members` is to show under C9
TitleLaw(members, titles) ==
    /\ TitleIds(members) = {} => titles = {FirstMember(members)}
    /\ \A t \in members : TitleIds(members) = {t} => titles = {t}

\* C9: if no member of a group has titleImageId set, the title item is the
\* first member by (order, id); if titleImageId is set to a member of the
\* group, the title item is that member; in the group summary of GET
\* /api/images and in the isTitle flags of GET /api/groups/:groupId.
TitleResolution ==
    /\ resp.op = "images" =>
          \A g \in DOMAIN resp.groups :
              TitleLaw(Range(IdsOf(resp.groups[g].files)), {resp.groups[g].title})
    /\ (resp.op = "group" /\ resp.status = 200) =>
          TitleLaw(Range(IdsOf(resp.files)), Flagged(resp.files))

\* a group listing whose title is a member that is not the first by sort
TitleNotFirst ==
    /\ resp.op = "group"
    /\ resp.status = 200
    /\ \E t \in Range(IdsOf(resp.files)) :
          /\ TitleIds(Range(IdsOf(resp.files))) = {t}
          /\ t # FirstMember(Range(IdsOf(resp.files)))

\* the title the listing of `members` is to show under C10
StaleTitleLaw(members, titles) ==
    (TitleIds(members) # {} /\ TitleIds(members) \cap members = {}) =>
        titles = {FirstMember(members)}

\* C10: a titleImageId that names no member of the group is ignored: the title
\* is the first member by (order, id), in the group summary of GET /api/images
\* and in the isTitle flags of GET /api/groups/:groupId.
StaleTitleFallsBack ==
    /\ resp.op = "images" =>
          \A g \in DOMAIN resp.groups :
              StaleTitleLaw(Range(IdsOf(resp.groups[g].files)), {resp.groups[g].title})
    /\ (resp.op = "group" /\ resp.status = 200) =>
          StaleTitleLaw(Range(IdsOf(resp.files)), Flagged(resp.files))

\* C11: every titleImageId stored in a record of the persisted map names an
\* item that exists (a record of the map and, for a stored file, a file of
\* uploads) and has the groupId of that record.
TitleIdsBelong ==
    \A k \in DOMAIN Persisted :
        Truthy(Persisted[k].titleImageId) =>
            LET t == Persisted[k].titleImageId
            IN  /\ t \in DOMAIN Persisted
                /\ NameTable[t].link \/ t \in uploads
                /\ Persisted[t].groupId = Persisted[k].groupId

\* the keys of the map m whose record has groupId g
RecordsOf(m, g) == {k \in DOMAIN m : m[k].groupId = g}

\* C12: DELETE /api/images/:id with a group id that uploads used removes the
\* file of every stored-file member and the record of every member: no record
\* with that groupId remains and GET /api/groups/:groupId answers 404.
GroupDeleteRemovesAll ==
    [][(resp'.op = "delete" /\ resp'.id \in EdgeGroups) =>
          /\ RecordsOf(Persisted, resp'.id) \cap uploads' = {}
          /\ RecordsOf(Persisted', resp'.id) = {}
          /\ groupResponse(Persisted', uploads', resp'.id).status = 404]_vars

\* C13: DELETE /api/images/:id on a file id with no file in uploads, or on a
\* link id with no record, answers 404 and changes neither the file set nor
\* the metadata map; on a group id with no member it answers success with a
\* count of zero.
DeleteOfMissing ==
    [][resp'.op = "delete" =>
          /\ (~NameTable[resp'.id].group /\ ~NameTable[resp'.id].link /\ resp'.id \notin uploads) =>
                (resp'.status = 404 /\ uploads' = uploads /\ Persisted' = Persisted)
          /\ (NameTable[resp'.id].link /\ resp'.id \notin DOMAIN Persisted) =>
                (resp'.status = 404 /\ uploads' = uploads /\ Persisted' = Persisted)
          /\ (NameTable[resp'.id].group /\ RecordsOf(Persisted, resp'.id) = {}) =>
                (resp'.status = 200 /\ resp'.deletedCount = 0)]_vars

\* a link id without record deleted while the map holds a file and a link
DeletedMissingLink ==
    /\ resp.op = "delete"
    /\ resp.status = 404
    /\ resp.id = "link-1"
    /\ "link-2" \in DOMAIN Persisted
    /\ MediaFiles(uploads) # {}

\* the order C14 gives a new item named `name` sent with groupId g, the
\* persisted map being m
ClaimedOrder(m, name, g) ==
    LET orders == {m[k].order : k \in {x \in RecordsOf(m, g) : m[x].order # NoOrder}}
    IN  IF RequestTable[name].order # NullOrder THEN RequestTable[name].order
        ELSE IF Truthy(g)
        THEN IF orders = {} THEN 0
             ELSE 1 + (CHOOSE o \in orders : \A q \in orders : q <= o)
        ELSE Sentinel

\* C14: a new item (stored file, by its original file name; link, by its URL)
\* gets order n-1 if the first run of digits of the name has a value n in
\* 1..9999; otherwise, with a groupId, one more than the greatest order among
\* the members of the group, files and links alike (0 if there is none);
\* otherwise 999.
InitialOrderLaw ==
    [][/\ \A req \in ApiUploads :
             (Upload({req}, NoFault) /\ resp'.status = 200) =>
                 /\ resp'.order = ClaimedOrder(Persisted, req.file.originalname, req.body.groupId)
                 /\ Persisted'[resp'.id].order = resp'.order
       /\ \A req \in ApiLinks :
             (UploadLink({req}, NoFault) /\ resp'.status = 200) =>
                 /\ resp'.order = ClaimedOrder(Persisted, req.url, req.body.groupId)
                 /\ Persisted'[resp'.id].order = resp'.order]_vars

\* C15: of two files uploaded to one group whose original names carry the
\* numbers 1 and 2 (photo_1.png, photo_2.jpg; the stored name keeps the
\* extension), whichever came first, the first is stored with order 0, the
\* second with order 1, and GET /api/groups/:groupId lists photo_1 before
\* photo_2.
PairListedByNumber ==
    \A a, b \in (uploads \cap DOMAIN Persisted) \ {LegacyFile} :
        (NameTable[a].ext = ".png" /\ NameTable[b].ext = ".jpg") =>
            /\ Persisted[a].order = 0
            /\ Persisted[b].order = 1
            /\ (resp.op = "group" /\ resp.status = 200) =>
                  IndexOf(IdsOf(resp.files), a) < IndexOf(IdsOf(resp.files), b)

\* the listing of the group after photo_2.jpg, then photo_1.png were uploaded
PairListedAgainstUpload ==
    /\ resp.op = "group"
    /\ resp.status = 200
    /\ {"1.jpg", "2.png"} \subseteq Range(IdsOf(resp.files))
    /\ IndexOf(IdsOf(resp.files), "2.png") < IndexOf(IdsOf(resp.files), "1.jpg")

\* C16: registering https://youtu.be/abc123 without groupId gives an item with
\* videoType 'youtube', embedUrl https://www.youtube.com/embed/abc123 and
\* order 999, in the response and in the stored record.
YoutuBeScenario ==
    (/\ resp.op = "link"
     /\ resp.status = 200
     /\ resp.externalUrl = "https://youtu.be/abc123"
     /\ ~Truthy(resp.groupId)) =>
        /\ resp.videoType = "youtube"
        /\ resp.embedUrl = "https://www.youtube.com/embed/abc123"
        /\ resp.order = 999
        /\ Persisted[resp.id].videoType = "youtube"
        /\ Persisted[resp.id].embedUrl = "https://www.youtube.com/embed/abc123"
        /\ Persisted[resp.id].order = 999

\* what follows the first `start` in s, up to the first of `stops` after it
Between(s, start, stops) ==
    LET rest == SubSeq(s, Find(s, start) + Len(start), Len(s))
        cuts == {Find(rest, p) : p \in {q \in stops : Contains(rest, q)}}
    IN  IF cuts = {} THEN rest
        ELSE SubSeq(rest, 1, (CHOOSE c \in cuts : \A e \in cuts : c <= e) - 1)

IsYoutube(url) == Contains(url, "youtube.com") \/ Contains(url, "youtu.be")

\* C17: a URL that contains youtube.com or youtu.be is stored with
\* kind 'youtube' and embed URL https://www.youtube.com/embed/<video id>; one
\* that contains drive.google.com/file/d/<id> with kind 'googledrive' and embed
\* URL https://drive.google.com/file/d/<id>/preview; every other URL with kind
\* 'unknown' and its own URL as embed URL.
LinkClassifiedAsStated ==
    (resp.op = "link" /\ resp.status = 200) =>
        LET url == resp.externalUrl
            stored == Persisted[resp.id]
        IN  IF IsYoutube(url)
            THEN /\ stored.videoType = "youtube"
                 /\ StartsWith(stored.embedUrl, "https://www.youtube.com/embed/")
                 /\ Len(stored.embedUrl) > Len("https://www.youtube.com/embed/")
            ELSE IF Contains(url, "drive.google.com/file/d/")
            THEN /\ stored.videoType = "googledrive"
                 /\ stored.embedUrl = "https://drive.google.com/file/d/"
                                       \o Between(url, "/file/d/", {"/"}) \o "/preview"
            ELSE /\ stored.videoType = "unknown"
                 /\ stored.embedUrl = url


AcceptedExtensions ==
    {".jpg", ".jpeg", ".png", ".gif", ".webp", ".mp4", ".webm", ".ogg", ".mov", ".avi"}

AllowedUpload(file) ==
    /\ file # NoFile
    /\ RequestTable[file.originalname].ext \in AcceptedExtensions
    /\ StartsWith(file.mimetype, "image/") \/ StartsWith(file.mimetype, "video/")

\* C18: an upload whose original extension is not one of the recognized
\* image/video extensions, or whose declared MIME type is not an image/video
\* type, is rejected and writes neither a file nor a metadata record.
UploadOnlyAllowed ==
    [][\A req \in EdgeUploads :
          (Upload({req}, NoFault) /\ ~AllowedUpload(req.file)) =>
              /\ resp'.status # 200
              /\ uploads' = uploads
              /\ Persisted' = Persisted]_vars

\* C19: every validation failure (disallowed file type, no file, oversized
\* file, link without url, reorder with a fileOrder that is no array, title
\* change without titleImageId) is answered with a 4xx status and leaves the
\* file set and the metadata map as they were.
ValidationFailure4xx ==
    [][(\/ \E req \in EdgeUploads : Upload({req}, NoFault) /\ multer(req.file) # "stored"
        \/ \E req \in EdgeLinks : UploadLink({req}, NoFault) /\ ~Truthy(req.url)
        \/ Reorder(EdgeGroups, {FALSE}, NoFault)
        \/ SetTitle(EdgeGroups, {Undef}, NoFault)) =>
            /\ resp'.status \in 400..499
            /\ uploads' = uploads
            /\ Persisted' = Persisted]_vars

\* C20: a restore of a name that has no snapshot is answered with 404 and
\* leaves the live file set and the metadata unchanged.
RestoreOfMissing ==
    [][(resp'.op = "restore" /\ resp'.backupName \notin SnapshotNames(Disk)) =>
            /\ resp'.status = 404
            /\ uploads' = uploads
            /\ Persisted' = Persisted]_vars

\* the successful uploads so far in a behaviour of SpecBackup: the earlier
\* ones, and every id taken since that is not the id of a link (no link is
\* deleted there)
UploadsSoFar ==
    Cardinality(EarlierFiles) + clock
        - Cardinality({k \in DOMAIN Persisted : NameTable[k].link})

\* C21: an upload creates a snapshot exactly when it is the N-th, 2N-th, ...
\* successful upload, whatever links were registered and items deleted in
\* between.
BackupOnEveryNthUpload ==
    [][\A req \in ApiUploads :
          (Upload({req}, NoFault) /\ resp'.status = 200) =>
              ((backups' # backups) <=> (UploadsSoFar' % BackupEvery = 0))]_vars

\* the snapshot named name, and the map its metadata file holds
SnapshotOf(name) == CHOOSE b \in backups : b.name = name

SnapshotMap(name) ==
    IF Parses(SnapshotOf(name).meta) THEN ParseJSON(SnapshotOf(name).meta.text) ELSE EmptyMap

\* C22: after a successful restore of a snapshot every file of the snapshot
\* is in uploads, every file that was in uploads still is, and the metadata
\* holds every record of the snapshot whose file is in the snapshot, or that
\* is an external link, as the snapshot recorded it.
RestoreIsAdditive ==
    [][\A name \in 1..MaxBackups :
          (Restore({name}, NoFault) /\ resp'.status = 200) =>
              /\ SnapshotOf(name).files \subseteq uploads'
              /\ uploads \subseteq uploads'
              /\ \A k \in DOMAIN SnapshotMap(name) :
                    (k \in SnapshotOf(name).files \/ SnapshotMap(name)[k].isExternal) =>
                        /\ k \in DOMAIN Persisted'
                        /\ Persisted'[k] = SnapshotMap(name)[k]]_vars

\* the members of group g: stored media files and external links
MembersOf(g) ==
    {k \in DOMAIN Persisted :
        /\ Persisted[k].groupId = g
        /\ (k \in MediaFiles(uploads) \/ Persisted[k].isExternal)}

\* the index of id in the array o, counted from 0
PlaceIn(o, id) == (CHOOSE i \in DOMAIN o : o[i] = id) - 1

\* C23: after a reorder with an array, every member of the group whose id is
\* in the array has its index as order and every item that is no member keeps
\* its record; if the array is a permutation of the members, the GET of the
\* group that follows lists them in the sequence of the array.
ReorderByIndex ==
    [][/\ (resp'.op = "order" /\ resp'.status = 200) =>
             \A k \in DOMAIN Persisted :
                 /\ (k \in MembersOf(resp'.groupId) /\ k \in Range(resp'.fileOrder)) =>
                        Persisted'[k].order = PlaceIn(resp'.fileOrder, k)
                 /\ k \notin MembersOf(resp'.groupId) => Persisted'[k] = Persisted[k]
       /\ (/\ resp.op = "order"
           /\ resp.status = 200
           /\ Range(resp.fileOrder) = MembersOf(resp.groupId)
           /\ resp'.op = "group"
           /\ resp'.groupId = resp.groupId) =>
                 IdsOf(resp'.files) = resp.fileOrder]_vars

\* a reorder that named a stored member, a link of the group and an item of
\* no group, the link first
ReorderedMixed ==
    /\ resp.op = "order"
    /\ resp.status = 200
    /\ Len(resp.fileOrder) = 3
    /\ Range(resp.fileOrder) \subseteq DOMAIN Persisted
    /\ Persisted[resp.fileOrder[1]].isExternal
    /\ resp.fileOrder[1] \in MembersOf(resp.groupId)
    /\ resp.fileOrder[2] \in MembersOf(resp.groupId) \cap uploads
    /\ resp.fileOrder[3] \in DOMAIN Persisted \ MembersOf(resp.groupId)
    /\ Persisted[resp.fileOrder[1]].order = 0
    /\ Persisted[resp.fileOrder[2]].order = 1
    /\ Persisted[resp.fileOrder[3]].order = Sentinel

\* C24: a run of the startup reconciliation removes a record only if the
\* record is not marked external and its id is no recognized media file of
\* uploads; it removes no record marked external and no file of uploads.
SyncRemovesOnlyOrphans ==
    [][resp'.op = "sync" =>
          /\ uploads \subseteq uploads'
          /\ \A k \in DOMAIN Persisted \ DOMAIN Persisted' :
                /\ ~Persisted[k].isExternal
                /\ k \notin MediaFiles(uploads')]_vars

\* C25: a group is found exactly while it has a member.  In every state, for
\* every group id: GET /api/groups/:groupId answers 200 if a stored file or an
\* external link of the group remains and 404 if none does; with no member
\* left the zip download answers 404 and GET /api/images has no summary of
\* the group.
GroupExistsWhileMember ==
    \A g \in GroupNames :
        /\ groupResponse(Persisted, uploads, g).status
               = (IF MembersOf(g) # {} THEN 200 ELSE 404)
        /\ MembersOf(g) = {} =>
               /\ downloadResponse(Persisted, uploads, g).status = 404
               /\ g \notin DOMAIN imagesResponse(Persisted, uploads).groups
        /\ (resp.op = "group" /\ resp.groupId = g) =>
               resp.status = groupResponse(Persisted, uploads, g).status

\* the legacy member of group-1 deleted by its id, as the last of the group
LastMemberDeleted ==
    /\ resp.op = "delete"
    /\ resp.status = 200
    /\ resp.id = LegacyFile
    /\ MembersOf("group-1") = {}
    /\ groupResponse(Persisted, uploads, "group-1").status = 404
    /\ downloadResponse(Persisted, uploads, "group-1").status = 404

\* the items of the gallery: recognized media files of uploads and records
\* marked external
GalleryItems == MediaFiles(uploads) \cup {k \in DOMAIN Persisted : Persisted[k].isExternal}

\* the group of item x, Null if it has none
GroupOf(x) ==
    IF x \in DOMAIN Persisted /\ Truthy(Persisted[x].groupId) THEN Persisted[x].groupId
    ELSE Null

\* how often the id x occurs in the sequence of ids
Occurrences(ids, x) == Cardinality({i \in DOMAIN ids : ids[i] = x})

\* C26: in the answer of GET /api/images every recognized media file of
\* uploads and every external-link record appears exactly once: at the top
\* level if it has no group, else among the members of the summary of its
\* group; there is exactly one summary for every group that has a member and
\* none for another; the top-level list is non-increasing in uploadDate.
ImagesPartition ==
    resp.op = "images" =>
        LET top == resp.images
            topIds(isGroup) ==
                IdsOf(SelectSeq(top, LAMBDA item : item.isGroup = isGroup))
        IN  /\ \A x \in GalleryItems :
                  /\ Occurrences(topIds(FALSE), x) = (IF GroupOf(x) = Null THEN 1 ELSE 0)
                  /\ \A g \in DOMAIN resp.groups :
                        Occurrences(IdsOf(resp.groups[g].files), x)
                            = (IF GroupOf(x) = g THEN 1 ELSE 0)
            /\ Range(topIds(FALSE)) \subseteq GalleryItems
            /\ \A g \in DOMAIN resp.groups :
                  Range(IdsOf(resp.groups[g].files)) \subseteq GalleryItems
            /\ DOMAIN resp.groups = {GroupOf(x) : x \in GalleryItems} \ {Null}
            /\ \A g \in DOMAIN resp.groups : Occurrences(topIds(TRUE), g) = 1
            /\ Range(topIds(TRUE)) = DOMAIN resp.groups
            /\ \A i, j \in DOMAIN top : i < j => top[i].uploadDate >= top[j].uploadDate

\* a listing with a group of a link and a stored file, placed by its date
\* before an item of no group
GroupListedFirst ==
    /\ resp.op = "images"
    /\ Len(resp.images) = 2
    /\ resp.images[1].isGroup
    /\ ~resp.images[2].isGroup
    /\ resp.images[1].uploadDate > resp.images[2].uploadDate
    /\ Len(resp.groups[resp.images[1].id].files) = 2
    /\ \E f \in Range(resp.groups[resp.images[1].id].files) : Persisted[f.id].isExternal

\* C27: at every instant, a crash inside any operation included, the primary
\* metadata file is absent or holds one complete serialized map.
PrimaryNeverHalfWritten == primary.kind \in {"absent", "json"}

\* C28: after every completed upload, link registration, delete, reorder,
\* title change, restore or reconciliation that changed the primary metadata
\* file, all writes succeeding, the copy in the backups directory holds the
\* same map as the primary file.
MirrorFollowsPrimary ==
    [][(/\ resp'.op \in {"upload", "link", "delete", "order", "title", "restore", "sync"}
        /\ resp'.status = 200
        /\ primary' # primary) =>
            /\ Parses(mirror')
            /\ Parses(primary')
            /\ ParseJSON(mirror'.text) = ParseJSON(primary'.text)]_vars

\* C29: in one server process no handler's load-mutate-save cycle has another
\* one inside it: when a handler saves, the map on disk is still the map it
\* loaded, the save applies its request to that map, and every update
\* acknowledged so far is in the map it leaves
CyclesSerial ==
    [][\A h \in DOMAIN cycles :
          (cycles[h].pc = "loaded" /\ cycles'[h].pc = "done") =>
              /\ cycles[h].loaded = Persisted
              /\ Persisted' = ParseJSON(Stringify(Put(Persisted, cycles[h].id,
                                                      cycles[h].record)))
              /\ \A k \in DOMAIN cycles :
                    cycles'[k].pc = "done" => cycles'[k].id \in DOMAIN Persisted']_vars

\* two requests of one process both acknowledged, both records in the map
BothAcknowledged ==
    \E h \in DOMAIN cycles, k \in DOMAIN cycles :
        /\ h # k
        /\ cycles[h].pc = "done" /\ cycles[k].pc = "done"
        /\ cycles[h].proc = cycles[k].proc
        /\ {cycles[h].id, cycles[k].id} \subseteq DOMAIN Persisted

\* C30: with two server processes on one metadata file the last writer wins:
\* the map a handler leaves is the map its process loaded plus its own record,
\* whatever the other process saved in between
LastWriterWins ==
    [][\A h \in DOMAIN cycles :
          (cycles[h].pc = "loaded" /\ cycles'[h].pc = "done") =>
              Persisted' = ParseJSON(Stringify(Put(cycles[h].loaded, cycles[h].id,
                                                   cycles[h].record)))]_vars

\* two uploads of two processes acknowledged, both files in uploads, the record
\* of only one of them in the map
LostUpdate ==
    \E h \in DOMAIN cycles, k \in DOMAIN cycles :
        /\ cycles[h].pc = "done" /\ cycles[h].kind = "upload"
        /\ cycles[k].pc = "done" /\ cycles[k].kind = "upload"
        /\ cycles[h].proc # cycles[k].proc
        /\ {cycles[h].id, cycles[k].id} \subseteq uploads
        /\ cycles[h].id \in DOMAIN Persisted
        /\ cycles[k].id \notin DOMAIN Persisted

\* C31: a snapshot, once made, stays as it is (its metadata copy, its files,
\* its being there), and a snapshot just made holds the primary metadata file
\* and the files of uploads of that moment
SnapshotsImmutable ==
    [][/\ \A b \in backups : b \in backups'
       /\ \A b \in backups' \ backups : b.meta = primary' /\ b.files = uploads']_vars

\* C32: serving GET /api/images or GET /api/groups/:groupId leaves every file
\* of uploads, both metadata files, their temp files and every snapshot as
\* they were
ReadersReadOnly ==
    [][resp'.op \in {"images", "group"} =>
          UNCHANGED <<uploads, primary, primaryTmp, mirror, mirrorTmp, backups>>]_vars

\* C33: the zip of a group has one entry per member, in the sequence of
\* GET /api/groups/:groupId: the k-th is named k<extension> for a stored file
\* and k_external_link.txt, holding the source URL and the embed URL, for a
\* link; no two entries share a name
ZipFollowsGroup ==
    (resp.op = "download" /\ resp.status = 200) =>
        LET members == groupResponse(Persisted, uploads, resp.groupId).files
        IN  /\ Len(resp.entries) = Len(members)
            /\ \A k \in DOMAIN resp.entries :
                  /\ resp.entries[k].id = members[k].id
                  /\ IF resp.entries[k].id \in uploads
                     THEN resp.entries[k].name = ToString(k) \o ExtName(resp.entries[k].id)
                     ELSE /\ resp.entries[k].name = ToString(k) \o "_external_link.txt"
                          /\ resp.entries[k].text =
                                <<Persisted[resp.entries[k].id].externalUrl,
                                  Persisted[resp.entries[k].id].embedUrl>>
            /\ \A j, k \in DOMAIN resp.entries :
                  resp.entries[j].name = resp.entries[k].name => j = k

\* a zip of a stored file and a link, the link first
ZipOfMixedGroup ==
    /\ resp.op = "download" /\ resp.status = 200
    /\ Len(resp.entries) = 2
    /\ resp.entries[1].id \notin uploads
    /\ resp.entries[2].id \in uploads

\* C34: with no restore requested, an item that is gone (ids are never given
\* twice, so one that was deleted) stays gone: a file or a record comes into
\* being only by the upload or the registration that makes it
DeletedStaysDeleted ==
    [][\A id \in Names :
          (/\ id \notin uploads
           /\ id \notin DOMAIN Persisted
           /\ id \in uploads' \cup DOMAIN Persisted') =>
               (resp'.op \in {"upload", "link"} /\ resp'.status = 200 /\ resp'.id = id)]_vars

\* C35: a successful GET /api/groups/:groupId flags exactly one member with
\* isTitle
ExactlyOneTitle ==
    (resp.op = "group" /\ resp.status = 200) =>
        Cardinality({i \in DOMAIN resp.files : resp.files[i].isTitle}) = 1

\* C36: for every group that has a member, the summary of GET /api/images and
\* the body of GET /api/groups/:groupId, served at the same time, carry the
\* same category, description and uploadDate, and the title of the summary is
\* the one member the detail flags
GroupViewsAgree ==
    \A g \in imagesGroupIds(Persisted, uploads) :
        /\ imagesHead(Persisted, uploads, g, clock + 1) = groupHead(Persisted, uploads, g, clock + 1)
        /\ Flagged(groupResponse(Persisted, uploads, g).files)
              = {imagesGroup(Persisted, uploads, g).title}

\* C37: a successful restore of a snapshot leaves the record of every item
\* made after the snapshot was taken: a stored file keeps its category,
\* description, groupId and order, an external link its whole record
RestoreKeepsLater ==
    [][(resp'.op = "restore" /\ resp'.status = 200) =>
          \A id \in DOMAIN Persisted \ (DOMAIN SnapshotMap(resp'.backupName)
                                         \cup SnapshotOf(resp'.backupName).files) :
              /\ id \in DOMAIN Persisted'
              /\ IF Persisted[id].isExternal
                 THEN Persisted'[id] = Persisted[id]
                 ELSE /\ Persisted'[id].category = Persisted[id].category
                      /\ Persisted'[id].description = Persisted[id].description
                      /\ Persisted'[id].groupId = Persisted[id].groupId
                      /\ Persisted'[id].order = Persisted[id].order]_vars

\* C38: the id of an acknowledged upload is in the GET /api/images that comes
\* next, as an individual item or as a member of its group, and its record is
\* in the map after the startup reconciliation that comes next
UploadStaysVisible ==
    [][(resp.op = "upload" /\ resp.status = 200) =>
          /\ resp'.op = "images" =>
                \/ resp.id \in Range(resp'.individuals)
                \/ \E g \in DOMAIN resp'.groups : resp.id \in Range(IdsOf(resp'.groups[g].files))
          /\ resp'.op = "sync" => resp.id \in DOMAIN Persisted']_vars

\* C39: with no delete and no restore requested, a stored file that has its
\* record (as every acknowledged upload has) keeps both through every later
\* request, crash and restart: the file stays in uploads and the record keeps
\* its category, description, type, groupId and order
UploadsDurable ==
    [][\A id \in DOMAIN Persisted :
          (~Persisted[id].isExternal /\ id \in uploads) =>
              /\ id \in uploads'
              /\ id \in DOMAIN Persisted'
              /\ Persisted'[id].category = Persisted[id].category
              /\ Persisted'[id].description = Persisted[id].description
              /\ Persisted'[id].type = Persisted[id].type
              /\ Persisted'[id].groupId = Persisted[id].groupId
              /\ Persisted'[id].order = Persisted[id].order]_vars

\* C40: a successful DELETE of a file id or a link id removes that item, and
\* one of a group id removes items of that group only: every other file stays
\* in uploads, every other record stays as it is, and nothing is added
DeleteTouchesTarget ==
    [][(resp'.op = "delete" /\ resp'.status = 200) =>
          /\ uploads' \subseteq uploads
          /\ DOMAIN Persisted' \subseteq DOMAIN Persisted
          /\ ~NameTable[resp'.id].group =>
                resp'.id \notin uploads' \cup DOMAIN Persisted'
          /\ \A id \in uploads \cup DOMAIN Persisted :
                (/\ id # resp'.id
                 /\ ~(/\ NameTable[resp'.id].group
                      /\ id \in DOMAIN Persisted
                      /\ Persisted[id].groupId = resp'.id)) =>
                    /\ id \in uploads => id \in uploads'
                    /\ id \in DOMAIN Persisted =>
                          /\ id \in DOMAIN Persisted'
                          /\ Persisted'[id] = Persisted[id]]_vars

\* a group was deleted, with members, and an item outside the group is left
GroupDeletedOthersLeft ==
    /\ resp.op = "delete" /\ resp.status = 200
    /\ NameTable[resp.id].group
    /\ resp.deletedCount >= 1
    /\ \E id \in DOMAIN Persisted : id \in MediaFiles(uploads) \/ Persisted[id].isExternal

====
